---------------------------- MODULE Spec2Model ----------------------------
(***************************************************************************)
(* Model of the connection, subscription and event-distribution engine of  *)
(* the MetaApi python SDK:                                                 *)
(*   lib/clients/metaApi/subscriptionManager.py     (SubscriptionManager)  *)
(*   lib/clients/metaApi/metaApiWebsocket_client.py (MetaApiWebsocketClient)*)
(*                                                                         *)
(* The program runs on one asyncio event loop: a coroutine runs without    *)
(* interruption from one await to the next.  Every action below is one     *)
(* such uninterrupted stretch of one coroutine or callback.                *)
(*                                                                         *)
(* The module holds several specifications over the same variables, one    *)
(* per part of the engine:                                                 *)
(*   SpecSM     the subscription supervisor (SubscriptionManager)          *)
(*   SpecEQ     the per-account event queues and their drain tasks         *)
(*   SpecRPC    one rpc_request call: attempts, retries, error frames      *)
(*   SpecMux    concurrent requests on two sockets, responses, close       *)
(*   FairMux    SpecMux with the event loop resuming what is ready         *)
(*   SpecPool   the assignment map: placement, limit errors, reconnect,    *)
(*              unsubscribe, close                                         *)
(*   SpecGate   concurrent placement, the subscribe lock of the client     *)
(*   SpecCancel, FairCancel   the supervisor and cancel_subscribe         *)
(*   SpecLimit  the supervisor and the errors with a recommendedRetryTime  *)
(*   SpecScan   the scan of the sockets and the locks of the sockets       *)
(*   SpecReconnect, FairReconnect   on_reconnected and cancel_account      *)
(*   SpecTimeout   on_timeout                                              *)
(***************************************************************************)
EXTENDS Integers, Sequences, FiniteSets, TLC

\* ------------------------------------------------------------------ bounds
NumAccounts == 2
MaxInstanceNumber == 0
MaxTasks == 3
MaxAttempts == 2
MaxEvents == 2
MaxDrainers == 3
MaxPackets == 2
MaxCalls == 3
MaxRpcCalls == 1
MaxMuxCalls == 2
MaxPoolCalls == 2
NumRequestIds == 1
Retries == 2
MaxSockets == 3
NumPoolAccounts == 3
MaxTime == 3
NumListeners == 2
MaxRouteEvents == 3        \* events of one account when their processing is followed
MaxRegistered == 2         \* entries of one list of listeners
BackoffAttempts == 9       \* attempts of one subscribe loop when its backoff is followed

\* ---------------------------------------------------------------- strings
\* Account ids are strings; the code tests them with str.startswith and
\* str.split(':'), so they are modelled as sequences of characters.
AccountList == << <<"a">>, <<"a", "b">>, <<"c">>, <<"c", "a">> >>
Accounts == {AccountList[i] : i \in 1..NumAccounts}
InstanceNumbers == 0..MaxInstanceNumber

StartsWith(s, p) == Len(p) <= Len(s) /\ SubSeq(s, 1, Len(p)) = p

\* instance_id = account_id + ':' + str(instance_number or 0)
Digits == <<"0", "1", "2", "3">>
InstanceId(account_id, instance_number) ==
    account_id \o <<":", Digits[instance_number + 1]>>

\* instance_id.split(':')[0]
SplitAccount(instance_id) ==
    LET colons == {i \in 1..Len(instance_id) : instance_id[i] = ":"}
        first == CHOOSE i \in colons : \A j \in colons : i <= j
    IN  IF colons = {} THEN instance_id ELSE SubSeq(instance_id, 1, first - 1)

InstanceIds == {InstanceId(a, n) : a \in Accounts, n \in InstanceNumbers}

Min(x, y) == IF x < y THEN x ELSE y

\* TooManyRequestsException metadata types
PER_USER == "LIMIT_ACCOUNT_SUBSCRIPTIONS_PER_USER"
PER_SERVER == "LIMIT_ACCOUNT_SUBSCRIPTIONS_PER_SERVER"
PER_USER_PER_SERVER == "LIMIT_ACCOUNT_SUBSCRIPTIONS_PER_USER_PER_SERVER"
RATE_PER_USER == "LIMIT_REQUEST_RATE_PER_USER"
LimitTypes == {PER_USER, PER_SERVER, PER_USER_PER_SERVER}
TooManyRequestsTypes == LimitTypes \cup {RATE_PER_USER}

\* ------------------------------------------------------------------- state
VARIABLES
    subscriptions,              \* SubscriptionManager._subscriptions
    awaitingResubscribe,        \* SubscriptionManager._awaitingResubscribe (its keys)
    tasks,                      \* the coroutines of the subscription manager
    lockTasks,                  \* lock_socket_instance tasks created, not yet run
    socketInstances,            \* MetaApiWebsocketClient._socketInstances
    socketInstancesByAccounts,  \* MetaApiWebsocketClient._socketInstancesByAccounts
    eventQueues,                \* MetaApiWebsocketClient._eventQueues
    events,                     \* per account, the event coroutines created so far
    drainers,                   \* the _call_account_events tasks
    started,                    \* per account, the queued events in the order they began
    closedInstances,            \* how many instances close() has dropped from the list
    calls,                      \* the rpc_request coroutines
    futures,                    \* per call, the asyncio.Future of its last _make_request
    closer,                     \* the close() coroutine
    subscribeLock,              \* MetaApiWebsocketClient._subscribeLock
    connectedHosts,             \* MetaApiWebsocketClient._connectedHosts (its keys)
    unsubscribing,              \* the accounts with an unsubscribe() in progress
    lastRequestsTime,           \* MetaApiWebsocketClient._lastRequestsTime['unsubscribe']
    unsubscribeTasks,           \* the tasks unsubscribe() of line 326, by account and time
    synchronizationFlags,       \* MetaApiWebsocketClient._synchronizationFlags
    syncSent,                   \* the packets of a synchronization the server has sent
    syncPacket,                 \* the packet of the synchronization being processed
    syncCalls,                  \* per listener, the calls of the synchronization it got
    now,                        \* datetime.now().timestamp()
    synchronizationListeners,   \* MetaApiWebsocketClient._synchronizationListeners
    latencyListeners,           \* MetaApiWebsocketClient._latencyListeners
    reconnectListeners,         \* MetaApiWebsocketClient._reconnectListeners
    statusTimers,               \* MetaApiWebsocketClient._status_timers and their tasks
    packets,                    \* per account, what each event coroutine processes
    supervisor,                 \* the calls made to the subscription manager by events
    raised                      \* the exception the last listener-registry call raised

smVars == <<subscriptions, awaitingResubscribe, tasks, lockTasks>>
poolVars == <<socketInstances, socketInstancesByAccounts>>
routeVars == <<synchronizationListeners, latencyListeners, reconnectListeners,
               statusTimers, packets, supervisor, raised>>
eqVars == <<eventQueues, events, drainers, started, routeVars>>
throttleVars == <<lastRequestsTime, unsubscribeTasks>>
syncVars == <<synchronizationFlags, syncSent, syncPacket, syncCalls>>
wsVars == <<closedInstances, calls, futures, closer, subscribeLock, connectedHosts,
            unsubscribing, throttleVars, syncVars, now>>
vars == <<smVars, poolVars, eqVars, wsVars>>

\* What the actions of one part of the engine leave alone.
notSM == <<eqVars, wsVars>>
notEQ == <<smVars, poolVars, wsVars, routeVars>>

TaskIds == 1..MaxTasks

\* A slot of the task table that holds no coroutine yet.
FreeTask == [kind |-> "free", pc |-> "free", acc |-> <<>>, num |-> 0,
             interval |-> 0, retryInterval |-> 0, attempts |-> 0,
             task |-> "none", sleep |-> 0, future |-> "none", waitTask |-> "none"]

FreeSlots == {t \in TaskIds : tasks[t].kind = "free"}
NextSlot == CHOOSE t \in FreeSlots : \A u \in FreeSlots : t <= u

\* asyncio.create_task(self.subscribe(account_id, instance_number)): the
\* coroutine is created and runs from its first line at a later step.
SubscribeCoroutine(account_id, instance_number) ==
    [FreeTask EXCEPT !.kind = "subscribe", !.pc = "scheduled",
                     !.acc = account_id, !.num = instance_number]

\* A coroutine that has returned: its locals are gone.
Finished(t, pc) ==
    [FreeTask EXCEPT !.kind = tasks[t].kind, !.pc = pc,
                     !.acc = tasks[t].acc, !.num = tasks[t].num]

TaskKey(t) == InstanceId(tasks[t].acc, tasks[t].num)

Remove(f, k) == [x \in DOMAIN f \ {k} |-> f[x]]
Put(f, k, v) == [x \in DOMAIN f \cup {k} |-> IF x = k THEN v ELSE f[x]]

\* MetaApiWebsocketClient.connected(socket_instance_index); python indexes
\* the list from 0, the sequence is indexed from 1.
\* socketInstances holds every instance object connect() has made, in the
\* order they were made; close() empties the list of the program and the
\* objects stay with the coroutines that hold them.  The list of the program
\* is what was made since the last close().
SocketList ==
    SubSeq(socketInstances, closedInstances + 1, Len(socketInstances))

Connected(socket_instance_index) ==
    IF Len(SocketList) > socket_instance_index
    THEN SocketList[socket_instance_index + 1].socketConnected
    ELSE FALSE

\* SubscriptionManager.is_account_subscribing
IsAccountSubscribing(account_id) ==
    \E key \in DOMAIN subscriptions : StartsWith(key, account_id)

\* ------------------------------------------------- subscription supervisor
\* SubscriptionManager.cancel_subscribe, applied to every id of the set ids
\* (the ids name different entries, tasks and futures, so the order in which
\* the code walks them does not matter).
CancelledEntries(ids) == ids \cap DOMAIN subscriptions

PendingFuture(id) ==
    /\ subscriptions[id].future # 0
    /\ tasks[subscriptions[id].future].future = "pending"

\* A cancel_subscribe that records the cancellation of an id whatever the
\* entries are.
SubscriptionsAfterCancelAny(ids) ==
    [id \in DOMAIN subscriptions \cup ids |->
        IF id \in ids
        THEN [shouldRetry |-> FALSE, task |-> 0, wait_task |-> 0, future |-> 0]
        ELSE subscriptions[id]]

SubscriptionsAfterCancel(ids) ==
    [id \in DOMAIN subscriptions |->
        IF id \in ids THEN [subscriptions[id] EXCEPT !.shouldRetry = FALSE]
        ELSE subscriptions[id]]

\* A cancel_subscribe that clears shouldRetry and leaves the attempt, the
\* wait and the future as they are.
TasksAfterCancelKept(ids) == tasks

TasksAfterCancel(ids) ==
    LET hit == CancelledEntries(ids)
        pending == {subscriptions[id].future : id \in {i \in hit : PendingFuture(i)}}
        waits == {subscriptions[id].wait_task : id \in {i \in hit : PendingFuture(i)}}
        attempts == {subscriptions[id].task : id \in hit} \ {0}
    IN  [t \in TaskIds |->
            [tasks[t] EXCEPT
                !.future = IF t \in pending THEN "false" ELSE @,
                !.waitTask = IF t \in waits /\ @ = "sleeping" THEN "cancelled" ELSE @,
                !.task = IF t \in attempts /\ @ \in {"created", "running", "sleeping"}
                         THEN "cancelled" ELSE @,
                !.sleep = IF t \in attempts THEN 0 ELSE @]]

\* A subscribe() that does not look for an existing entry.
SubscribeEntersUnchecked(instance_id) == TRUE

\* Whether subscribe() takes the branch that creates an entry and loops.
SubscribeEnters(instance_id) == instance_id \notin DOMAIN subscriptions

\* The user (or ensure_subscribe) calls subscribe(account_id, instance_number).
SubscribeCall(account_id, instance_number) ==
    /\ FreeSlots # {}
    /\ tasks' = [tasks EXCEPT ![NextSlot] = SubscribeCoroutine(account_id, instance_number)]
    /\ UNCHANGED <<subscriptions, awaitingResubscribe, lockTasks, poolVars, notSM>>

\* subscribe() from its first line to its first await (lines 36-69).
SubscribeStart(t) ==
    /\ tasks[t].kind = "subscribe"
    /\ tasks[t].pc = "scheduled"
    /\ IF SubscribeEnters(TaskKey(t))
       THEN /\ subscriptions' = Put(subscriptions, TaskKey(t),
                    [shouldRetry |-> TRUE, task |-> t, wait_task |-> 0, future |-> 0])
            /\ tasks' = [tasks EXCEPT ![t].pc = "waitTask", ![t].interval = 3,
                                      ![t].task = "created"]
       ELSE /\ tasks' = [tasks EXCEPT ![t] = Finished(t, "returned")]
            /\ UNCHANGED subscriptions
    /\ UNCHANGED <<awaitingResubscribe, lockTasks, poolVars, notSM>>

\* subscribe_task starts: it calls self._websocketClient.subscribe (line 48).
TaskStart(t) ==
    /\ tasks[t].task = "created"
    /\ tasks' = [tasks EXCEPT ![t].task = "running", ![t].attempts = @ + 1]
    /\ UNCHANGED <<subscriptions, awaitingResubscribe, lockTasks, poolVars, notSM>>

\* The subscribe request of subscribe_task returns a response.
TaskOk(t) ==
    /\ tasks[t].task = "running"
    /\ tasks' = [tasks EXCEPT ![t].task = "done"]
    /\ UNCHANGED <<subscriptions, awaitingResubscribe, lockTasks, poolVars, notSM>>

\* The task lock_socket_instance(socket_instance_index, err.metadata) that
\* line 57 creates.
LockTask(socket_instance_index, type, recommendedRetryTime) ==
    [index |-> socket_instance_index, type |-> type,
     recommendedRetryTime |-> recommendedRetryTime]

\* Lines 56-58 without the lock task.
AssignmentDroppedNoLock(account_id, type, recommendedRetryTime) ==
    /\ socketInstancesByAccounts' = Remove(socketInstancesByAccounts, account_id)
    /\ UNCHANGED lockTasks

\* Lines 56-58: the assignment of the account is deleted and the lock task
\* is created.
AssignmentDropped(account_id, type, recommendedRetryTime) ==
    /\ socketInstancesByAccounts' = Remove(socketInstancesByAccounts, account_id)
    /\ lockTasks' = lockTasks \cup
           {LockTask(socketInstancesByAccounts[account_id], type, recommendedRetryTime)}

\* The subscribe request raises TooManyRequestsException (lines 49-64).
TaskTooManyRequests(t, type, recommendedRetryTime) ==
    /\ tasks[t].task = "running"
    /\ IF tasks[t].acc \notin DOMAIN socketInstancesByAccounts
       THEN \* line 50 raises KeyError inside the handler: the task ends
            /\ tasks' = [tasks EXCEPT ![t].task = "done"]
            /\ UNCHANGED <<lockTasks, socketInstancesByAccounts>>
       ELSE IF type \in LimitTypes
       THEN /\ AssignmentDropped(tasks[t].acc, type, recommendedRetryTime)
            /\ tasks' = [tasks EXCEPT ![t].task = "done"]
       ELSE \* lines 60-64: sleep(retry_time - now - interval)
            /\ tasks' = [tasks EXCEPT
                  ![t].task = IF now + tasks[t].interval < recommendedRetryTime
                              THEN "sleeping" ELSE "done",
                  ![t].sleep = IF now + tasks[t].interval < recommendedRetryTime
                               THEN recommendedRetryTime - now - tasks[t].interval
                               ELSE 0]
            /\ UNCHANGED <<lockTasks, socketInstancesByAccounts>>
    /\ UNCHANGED <<subscriptions, awaitingResubscribe, socketInstances, notSM>>

\* Any other exception of the request is swallowed (lines 65-66).
TaskOtherError(t) ==
    /\ tasks[t].task = "running"
    /\ tasks' = [tasks EXCEPT ![t].task = "done"]
    /\ UNCHANGED <<subscriptions, awaitingResubscribe, lockTasks, poolVars, notSM>>

\* The sleep of lines 63-64 ends.
TaskSleepDone(t) ==
    /\ tasks[t].task = "sleeping"
    /\ tasks' = [tasks EXCEPT ![t].task = "done", ![t].sleep = 0]
    /\ UNCHANGED <<subscriptions, awaitingResubscribe, lockTasks, poolVars, notSM>>

\* A loop that ends when its attempt has ended.
LoopAfterTaskEnds(t) ==
    /\ tasks[t].kind = "subscribe"
    /\ tasks[t].pc = "waitTask"
    /\ tasks[t].task \in {"done", "cancelled"}
    /\ TaskKey(t) \in DOMAIN subscriptions
    /\ subscriptions' = Remove(subscriptions, TaskKey(t))
    /\ tasks' = [tasks EXCEPT ![t] = Finished(t, "ended")]
    /\ UNCHANGED <<awaitingResubscribe, lockTasks, poolVars, notSM>>

\* A loop whose backoff doubles without the limit of 300 seconds.
LoopAfterTaskUncapped(t) ==
    /\ tasks[t].kind = "subscribe"
    /\ tasks[t].pc = "waitTask"
    /\ tasks[t].task \in {"done", "cancelled"}
    /\ IF TaskKey(t) \notin DOMAIN subscriptions
       THEN /\ tasks' = [tasks EXCEPT ![t] = Finished(t, "crashed")]
            /\ UNCHANGED subscriptions
       ELSE IF ~subscriptions[TaskKey(t)].shouldRetry
       THEN /\ subscriptions' = Remove(subscriptions, TaskKey(t))
            /\ tasks' = [tasks EXCEPT ![t] = Finished(t, "ended")]
       ELSE /\ subscriptions' = [subscriptions EXCEPT ![TaskKey(t)].wait_task = t,
                                                      ![TaskKey(t)].future = t]
            /\ tasks' = [tasks EXCEPT ![t].pc = "waitFuture",
                                      ![t].retryInterval = tasks[t].interval,
                                      ![t].interval = tasks[t].interval * 2,
                                      ![t].future = "pending",
                                      ![t].waitTask = "sleeping"]
    /\ UNCHANGED <<awaitingResubscribe, lockTasks, poolVars, notSM>>

\* asyncio.wait({task}) returns: lines 70-82.
LoopAfterTask(t) ==
    /\ tasks[t].kind = "subscribe"
    /\ tasks[t].pc = "waitTask"
    /\ tasks[t].task \in {"done", "cancelled"}
    /\ IF TaskKey(t) \notin DOMAIN subscriptions
       THEN /\ tasks' = [tasks EXCEPT ![t] = Finished(t, "crashed")]
            /\ UNCHANGED subscriptions
       ELSE IF ~subscriptions[TaskKey(t)].shouldRetry
       THEN /\ subscriptions' = Remove(subscriptions, TaskKey(t))
            /\ tasks' = [tasks EXCEPT ![t] = Finished(t, "ended")]
       ELSE /\ subscriptions' = [subscriptions EXCEPT ![TaskKey(t)].wait_task = t,
                                                      ![TaskKey(t)].future = t]
            /\ tasks' = [tasks EXCEPT ![t].pc = "waitFuture",
                                      ![t].retryInterval = tasks[t].interval,
                                      ![t].interval = Min(tasks[t].interval * 2, 300),
                                      ![t].future = "pending",
                                      ![t].waitTask = "sleeping"]
    /\ UNCHANGED <<awaitingResubscribe, lockTasks, poolVars, notSM>>

\* The second subscribe_task: sleep(retry_interval) ends, the future is set
\* to True (lines 76-78).
WaitTaskFires(t, attempts) ==
    /\ tasks[t].waitTask = "sleeping"
    /\ tasks[t].attempts < attempts
    /\ tasks' = [tasks EXCEPT ![t].waitTask = "done",
                              ![t].future = IF @ = "pending" THEN "true" ELSE @]
    /\ UNCHANGED <<subscriptions, awaitingResubscribe, lockTasks, poolVars, notSM>>

\* The same, for the attempts the specifications of the supervisor follow.
WaitTaskFire(t) == WaitTaskFires(t, MaxAttempts)

\* The await of the future returns: lines 82-86 and the loop test of line 45
\* with lines 68-69.
LoopAfterFuture(t) ==
    /\ tasks[t].kind = "subscribe"
    /\ tasks[t].pc = "waitFuture"
    /\ tasks[t].future \in {"true", "false"}
    /\ IF TaskKey(t) \notin DOMAIN subscriptions
       THEN /\ tasks' = [tasks EXCEPT ![t] = Finished(t, "crashed")]
            /\ UNCHANGED subscriptions
       ELSE IF tasks[t].future = "false" \/ ~subscriptions[TaskKey(t)].shouldRetry
       THEN /\ subscriptions' = Remove(subscriptions, TaskKey(t))
            /\ tasks' = [tasks EXCEPT ![t] = Finished(t, "ended")]
       ELSE /\ subscriptions' = [subscriptions EXCEPT ![TaskKey(t)].future = 0,
                                                      ![TaskKey(t)].task = t]
            /\ tasks' = [tasks EXCEPT ![t].pc = "waitTask", ![t].task = "created",
                                      ![t].future = "none", ![t].waitTask = "none"]
    /\ UNCHANGED <<awaitingResubscribe, lockTasks, poolVars, notSM>>

\* SubscriptionManager.cancel_subscribe
CancelSubscribe(instance_id) ==
    /\ subscriptions' = SubscriptionsAfterCancel({instance_id})
    /\ tasks' = TasksAfterCancel({instance_id})
    /\ UNCHANGED <<awaitingResubscribe, lockTasks, poolVars, notSM>>

\* SubscriptionManager.cancel_account
CancelAccount(account_id) ==
    LET ids == {key \in DOMAIN subscriptions : StartsWith(key, account_id)}
    IN  /\ subscriptions' = SubscriptionsAfterCancel(ids)
        /\ tasks' = TasksAfterCancel(ids)
        /\ UNCHANGED <<awaitingResubscribe, lockTasks, poolVars, notSM>>

\* An on_timeout that subscribes whatever the socket of the account is.
OnTimeoutUnchecked(account_id, instance_number) ==
    /\ FreeSlots # {}
    /\ tasks' = [tasks EXCEPT ![NextSlot] =
                    SubscribeCoroutine(account_id, instance_number)]
    /\ UNCHANGED <<subscriptions, awaitingResubscribe, lockTasks, poolVars, notSM>>

\* The task table after SubscriptionManager.on_timeout (lines 112-121).
TasksAfterOnTimeout(account_id, instance_number) ==
    IF /\ account_id \in DOMAIN socketInstancesByAccounts
       /\ Connected(socketInstancesByAccounts[account_id])
    THEN [tasks EXCEPT ![NextSlot] = SubscribeCoroutine(account_id, instance_number)]
    ELSE tasks

\* SubscriptionManager.on_timeout
OnTimeout(account_id, instance_number) ==
    /\ FreeSlots # {}
    /\ tasks' = TasksAfterOnTimeout(account_id, instance_number)
    /\ UNCHANGED <<subscriptions, awaitingResubscribe, lockTasks, poolVars, notSM>>

\* The task table after create_task(on_disconnected(account_id,
\* instance_number)), the coroutine taken to its sleep(uniform(1, 5)).
TasksAfterOnDisconnected(account_id, instance_number) ==
    [tasks EXCEPT ![NextSlot] =
        [FreeTask EXCEPT !.kind = "on_disconnected", !.pc = "sleeping",
                         !.acc = account_id, !.num = instance_number]]

\* SubscriptionManager.on_disconnected up to its sleep(uniform(1, 5))
OnDisconnected(account_id, instance_number) ==
    /\ FreeSlots # {}
    /\ tasks' = TasksAfterOnDisconnected(account_id, instance_number)
    /\ UNCHANGED <<subscriptions, awaitingResubscribe, lockTasks, poolVars, notSM>>

\* SubscriptionManager.on_disconnected after the sleep (lines 131-132); the
\* subscribe coroutine it creates takes the slot of the coroutine that ends.
OnDisconnectedWake(t) ==
    /\ tasks[t].kind = "on_disconnected"
    /\ tasks[t].pc = "sleeping"
    /\ IF tasks[t].acc \in DOMAIN socketInstancesByAccounts
       THEN tasks' = [tasks EXCEPT ![t] = SubscribeCoroutine(tasks[t].acc, tasks[t].num)]
       ELSE tasks' = [tasks EXCEPT ![t] = Finished(t, "ended")]
    /\ UNCHANGED <<subscriptions, awaitingResubscribe, lockTasks, poolVars, notSM>>

\* SubscriptionManager.on_reconnected (lines 155-164)
OnReconnectedEffect(socket_instance_index, reconnect_account_ids) ==
    LET ids == {instance_id \in DOMAIN subscriptions :
                   /\ SplitAccount(instance_id) \in DOMAIN socketInstancesByAccounts
                   /\ socketInstancesByAccounts[SplitAccount(instance_id)]
                          = socket_instance_index}
        cancelled == TasksAfterCancel(ids)
        \* one wait_resubscribe coroutine per id, in the free slots
        slot == CHOOSE f \in [reconnect_account_ids -> FreeSlots] :
                    \A x, y \in reconnect_account_ids : x # y => f[x] # f[y]
    IN  /\ Cardinality(reconnect_account_ids) <= Cardinality(FreeSlots)
        /\ subscriptions' = SubscriptionsAfterCancel(ids)
        /\ tasks' = [t \in TaskIds |->
                        IF \E a \in reconnect_account_ids : slot[a] = t
                        THEN [FreeTask EXCEPT
                                 !.kind = "wait_resubscribe", !.pc = "scheduled",
                                 !.acc = CHOOSE a \in reconnect_account_ids : slot[a] = t]
                        ELSE cancelled[t]]

\* An on_reconnected that cancels the loops of every socket.
OnReconnectedAll(socket_instance_index, reconnect_account_ids) ==
    /\ reconnect_account_ids = {}
    /\ subscriptions' = SubscriptionsAfterCancel(DOMAIN subscriptions)
    /\ tasks' = TasksAfterCancel(DOMAIN subscriptions)
    /\ UNCHANGED <<awaitingResubscribe, lockTasks, poolVars, notSM>>

OnReconnected(socket_instance_index, reconnect_account_ids) ==
    /\ OnReconnectedEffect(socket_instance_index, reconnect_account_ids)
    /\ UNCHANGED <<awaitingResubscribe, lockTasks, poolVars, notSM>>

\* wait_resubscribe from its first line (lines 143-150), and each turn of
\* its polling loop (lines 146-150).
WaitResubscribeStep(t) ==
    /\ tasks[t].kind = "wait_resubscribe"
    /\ tasks[t].pc \in {"scheduled", "polling"}
    /\ IF tasks[t].pc = "scheduled" /\ tasks[t].acc \in awaitingResubscribe
       THEN /\ tasks' = [tasks EXCEPT ![t] = Finished(t, "ended")]
            /\ UNCHANGED awaitingResubscribe
       ELSE IF IsAccountSubscribing(tasks[t].acc)
       THEN /\ tasks' = [tasks EXCEPT ![t].pc = "polling"]
            /\ awaitingResubscribe' = awaitingResubscribe \cup {tasks[t].acc}
       ELSE /\ tasks' = [tasks EXCEPT ![t] = SubscribeCoroutine(tasks[t].acc, 0)]
            /\ awaitingResubscribe' = awaitingResubscribe \ {tasks[t].acc}
    /\ UNCHANGED <<subscriptions, lockTasks, poolVars, notSM>>


\* ------------------------------------------------------ account event queues
\* The event coroutines of an account are numbered in the order the account
\* created them: events[a][i] is the i-th, and a queue holds such numbers.
DrainerIds == 1..MaxDrainers

NoDrainer == [pc |-> "none", acc |-> <<>>]

\* The numbers of the next k event coroutines of account_id.
NewEvents(account_id, k) == [i \in 1..k |-> Len(events[account_id]) + i]

FreeDrainers == {d \in DrainerIds : drainers[d].pc = "none"}
NextDrainer == CHOOSE d \in FreeDrainers : \A f \in FreeDrainers : d <= f

\* self._sequentialEventProcessing (line 69)
sequentialEventProcessing == TRUE

\* A queue_packet and queue_event that make a new queue and a new drain task
\* every time.
QueueIsNewUnchecked(account_id) == TRUE

\* queue_packet and queue_event test `account_id not in self._eventQueues`
\* to decide between a new queue with a new drain task and an append.
QueueIsNew(account_id) == account_id \notin DOMAIN eventQueues

\* k event coroutines of account_id are created; queued tells whether they
\* are put on the account's queue or started as tasks of their own.
EventsCreated(account_id, k, queued) ==
    [events EXCEPT ![account_id] =
        @ \o [i \in 1..k |-> [state |-> IF queued THEN "new" ELSE "task",
                              queued |-> queued]]]

\* Lines 970-974 and 987-991: k new events go to the account's queue.
Enqueue(account_id, k) ==
    /\ IF QueueIsNew(account_id)
       THEN /\ FreeDrainers # {}
            /\ eventQueues' = Put(eventQueues, account_id, NewEvents(account_id, k))
            /\ drainers' = [drainers EXCEPT ![NextDrainer] =
                               [pc |-> "created", acc |-> account_id]]
       ELSE /\ eventQueues' = [eventQueues EXCEPT
                                  ![account_id] = @ \o NewEvents(account_id, k)]
            /\ UNCHANGED drainers
    /\ events' = EventsCreated(account_id, k, TRUE)

\* queue_packet: restore_order returned k packets that are not noop, for a
\* packet that carries a sequenceNumber or not.
QueuePacket(account_id, k, hasSequenceNumber) ==
    /\ Len(events[account_id]) + k <= MaxEvents
    /\ IF sequentialEventProcessing /\ hasSequenceNumber
       THEN Enqueue(account_id, k)
       ELSE /\ events' = EventsCreated(account_id, k, FALSE)
            /\ UNCHANGED <<eventQueues, drainers>>
    /\ UNCHANGED <<started, notEQ>>

\* queue_event
QueueEvent(account_id) ==
    /\ Len(events[account_id]) + 1 <= MaxEvents
    /\ IF sequentialEventProcessing
       THEN Enqueue(account_id, 1)
       ELSE /\ events' = EventsCreated(account_id, 1, FALSE)
            /\ UNCHANGED <<eventQueues, drainers>>
    /\ UNCHANGED <<started, notEQ>>

\* The loop of _call_account_events from its test (line 997) to the await of
\* line 998, or to the del of line 1000.  Awaiting a coroutine that was
\* awaited before raises RuntimeError, which ends the task.
DrainLoop(d, queues) ==
    LET a == drainers[d].acc
    IN  IF Len(queues[a]) = 0
        THEN /\ eventQueues' = Remove(queues, a)
             /\ drainers' = [drainers EXCEPT ![d] = NoDrainer]
             /\ UNCHANGED <<events, started>>
        ELSE IF events[a][queues[a][1]].state = "new"
        THEN /\ eventQueues' = queues
             /\ events' = [events EXCEPT ![a][queues[a][1]].state = "running"]
             /\ started' = [started EXCEPT ![a] = Append(@, queues[a][1])]
             /\ drainers' = [drainers EXCEPT ![d].pc = "awaiting"]
        ELSE /\ eventQueues' = queues
             /\ drainers' = [drainers EXCEPT ![d].pc = "crashed"]
             /\ UNCHANGED <<events, started>>

\* _call_account_events from its first line.
DrainStart(d) ==
    /\ drainers[d].pc = "created"
    /\ IF drainers[d].acc \in DOMAIN eventQueues
       THEN DrainLoop(d, eventQueues)
       ELSE /\ drainers' = [drainers EXCEPT ![d] = NoDrainer]
            /\ UNCHANGED <<eventQueues, events, started>>
    /\ UNCHANGED notEQ

\* An event coroutine ends: _process_synchronization_packet, or the
\* on_disconnected of the watchdog, has notified every listener.
EventDone(account_id, e) ==
    /\ e \in 1..Len(events[account_id])
    /\ events[account_id][e].state = "running"
    /\ events' = [events EXCEPT ![account_id][e].state = "done"]
    /\ UNCHANGED <<eventQueues, drainers, started, notEQ>>

\* A packet without sequenceNumber is processed by a task of its own
\* (line 977).
EventTaskStart(account_id, e) ==
    /\ e \in 1..Len(events[account_id])
    /\ events[account_id][e].state = "task"
    /\ events' = [events EXCEPT ![account_id][e].state = "running"]
    /\ UNCHANGED <<eventQueues, drainers, started, notEQ>>

\* A drain task that deletes the entry when its first await returns,
\* whatever is left on the queue.
DrainResumeDrops(d) ==
    /\ drainers[d].pc = "awaiting"
    /\ drainers[d].acc \in DOMAIN eventQueues
    /\ Len(eventQueues[drainers[d].acc]) > 0
    /\ events[drainers[d].acc][eventQueues[drainers[d].acc][1]].state = "done"
    /\ eventQueues' = Remove(eventQueues, drainers[d].acc)
    /\ drainers' = [drainers EXCEPT ![d] = NoDrainer]
    /\ UNCHANGED <<events, started, notEQ>>

\* The await of line 998 returns: popleft and the next turn of the loop.
DrainResume(d) ==
    /\ drainers[d].pc = "awaiting"
    /\ drainers[d].acc \in DOMAIN eventQueues
    /\ Len(eventQueues[drainers[d].acc]) > 0
    /\ events[drainers[d].acc][eventQueues[drainers[d].acc][1]].state = "done"
    /\ DrainLoop(d, [eventQueues EXCEPT ![drainers[d].acc] = Tail(@)])
    /\ UNCHANGED notEQ

\* ------------------------------------------------------ sockets and calls
\* Options of the client (constructor, lines 59-68).  retries is listed with
\* the bounds; the two delays default to 1 and 30 seconds and the cooldown to
\* 600: the model runs the client with small values of these options.
MinRetryDelayInSeconds == 2
MaxRetryDelayInSeconds == 3
SubscribeCooldownInSeconds == 2

\* self._maxAccountsPerInstance is 100 (line 65); the model scales it down
\* to 2 accounts per socket.
MaxAccountsPerInstance == 2

CallIds == 1..MaxCalls
RpcCallIds == 1..MaxRpcCalls
PoolAccounts == {AccountList[i] : i \in 1..NumPoolAccounts}

\* requestIds a caller passes in the request, and the one random_id() gives
\* to a call whose request carries none.
RequestIds == 1..NumRequestIds
RandomId(c) == NumRequestIds + c
AllRequestIds == 1..(NumRequestIds + MaxCalls)

\* A single-attempt rule that leaves subscribe out.
SingleAttemptTypesTrade == {"trade"}

\* request['type']: the two types of line 1078 and one of the others.
SingleAttemptTypes == {"trade", "subscribe"}
RequestTypes == {"trade", "subscribe", "getAccountInformation"}

\* data['error'] of a processingError frame; any name _convert_error does not
\* know, here InternalError, gives InternalException.
ErrorFrames == {"ValidationError", "NotFoundError", "NotSynchronizedError",
                "TimeoutError", "NotAuthenticatedError", "TradeError",
                "UnauthorizedError", "TooManyRequestsError", "InternalError"}

\* _convert_error: the class of the exception made from a frame.  For
\* UnauthorizedError it also evaluates self.close(), see OnProcessingError.
ConvertError(error) ==
    CASE error = "ValidationError" -> "ValidationException"
      [] error = "NotFoundError" -> "NotFoundException"
      [] error = "NotSynchronizedError" -> "NotSynchronizedException"
      [] error = "TimeoutError" -> "TimeoutException"
      [] error = "NotAuthenticatedError" -> "NotConnectedException"
      [] error = "TradeError" -> "TradeException"
      [] error = "UnauthorizedError" -> "UnauthorizedException"
      [] error = "TooManyRequestsError" -> "TooManyRequestsException"
      [] OTHER -> "InternalException"

\* An exception: its class name and, for TooManyRequestsException,
\* metadata['recommendedRetryTime'].
Error(class, recommendedRetryTime) ==
    [class |-> class, recommendedRetryTime |-> recommendedRetryTime]
NoError == Error("", 0)

NoLock == [set |-> FALSE, type |-> "", recommendedRetryTime |-> 0,
           lockedAtAccounts |-> 0, lockedAtTime |-> 0]

\* The instance connect() makes (lines 206-223).
NewInstance(id) ==
    [id |-> id, connected |-> TRUE, resolved |-> FALSE, socketConnected |-> FALSE,
     requestResolves |-> <<>>, subscribeLock |-> NoLock,
     isReconnecting |-> FALSE, reconnect |-> "none"]

\* The asyncio.Future objects of _make_request (line 1122): the n-th attempt
\* of call c makes the future <<c, n>>.  requestId and instance say where
\* line 1122 put it; value and from are the requestId of the response that
\* completed it and the instance whose socket delivered that response.
FutureIds == CallIds \X (1..(Retries + 1))
NoFutureId == <<0, 0>>
NoFuture == [state |-> "none", requestId |-> 0, instance |-> 0, value |-> 0,
             from |-> 0, err |-> NoError]

\* An rpc_request coroutine and its locals; instance is the instance object
\* the coroutine holds (line 1069, line 1115), by its place in socketInstances.
NoCall == [pc |-> "idle", acc |-> <<>>, type |-> "", requestId |-> 0,
           index |-> 0, instance |-> 0, awaits |-> NoFutureId,
           retryCounter |-> 0, attempts |-> 0, err |-> NoError, delay |-> 0,
           line |-> 0]

\* The part of the state the steps of rpc_request work on, passed from one
\* statement to the next.
Cur == [calls |-> calls, futures |-> futures, sockets |-> socketInstances,
        byAcc |-> socketInstancesByAccounts]

ListOf(S) == SubSeq(S.sockets, closedInstances + 1, Len(S.sockets))

\* A future nothing refers to any more is garbage.
Referenced(S, f) ==
    \/ \E c \in CallIds : S.calls[c].awaits = f
    \/ \E s \in 1..Len(S.sockets) :
          \E r \in DOMAIN S.sockets[s].requestResolves :
              S.sockets[s].requestResolves[r] = f

Commit(S) ==
    /\ calls' = S.calls
    /\ futures' = [f \in FutureIds |-> IF Referenced(S, f) THEN S.futures[f] ELSE NoFuture]
    /\ socketInstances' = S.sockets
    /\ socketInstancesByAccounts' = S.byAcc

\* The call ends with an exception raised to its caller at the given line:
\* its locals are gone; what stays is what the caller saw.
Raise(S, c, err, line) ==
    [S EXCEPT !.calls[c] = [NoCall EXCEPT !.pc = "raised",
                                          !.type = S.calls[c].type,
                                          !.retryCounter = S.calls[c].retryCounter,
                                          !.attempts = S.calls[c].attempts,
                                          !.err = err, !.line = line]]

\* The call ends and returns the response to its caller.
Return(S, c, response) ==
    [S EXCEPT !.calls[c] = [NoCall EXCEPT !.pc = "returned",
                                          !.type = S.calls[c].type,
                                          !.retryCounter = S.calls[c].retryCounter,
                                          !.attempts = S.calls[c].attempts]]

\* The line an exception of _make_request leaves rpc_request from when it is
\* not retried: line 1079 for trade and subscribe, else the given line.
RaiseLine(S, c, line) ==
    IF S.calls[c].type \in SingleAttemptTypes THEN 1079 ELSE line

\* _make_request from line 1115 to the await of emit (line 1127).  The
\* lookups of line 1115 raise KeyError or IndexError, which no branch of
\* rpc_request retries.  attempts counts the calls of _make_request.
MakeRequest(S, c) ==
    LET a == S.calls[c].acc
        request_id == IF S.calls[c].requestId = 0 THEN RandomId(c)
                      ELSE S.calls[c].requestId
        f == <<c, S.calls[c].attempts + 1>>
        S0 == [S EXCEPT !.calls[c].attempts = @ + 1]
    IN  IF a \notin DOMAIN S.byAcc
        THEN Raise(S0, c, Error("KeyError", 0), RaiseLine(S, c, 1110))
        ELSE IF S.byAcc[a] >= Len(ListOf(S))
        THEN Raise(S0, c, Error("IndexError", 0), RaiseLine(S, c, 1110))
        ELSE LET s == closedInstances + S.byAcc[a] + 1
             IN  [S EXCEPT
                    !.sockets[s].requestResolves = Put(@, request_id, f),
                    !.futures[f] = [NoFuture EXCEPT !.state = "pending",
                                                    !.requestId = request_id,
                                                    !.instance = s],
                    !.calls[c].pc = "emitting",
                    !.calls[c].requestId = request_id,
                    !.calls[c].instance = s,
                    !.calls[c].attempts = @ + 1,
                    !.calls[c].delay = 0]

RECURSIVE Pow2(_)
Pow2(k) == IF k = 0 THEN 1 ELSE 2 * Pow2(k - 1)

\* min(pow(2, k) * self._minRetryDelayInSeconds, self._maxRetryDelayInSeconds)
RetryDelay(k) == Min(Pow2(k) * MinRetryDelayInSeconds, MaxRetryDelayInSeconds)

\* calc_request_time of lines 1085-1090
RECURSIVE CalcRequestTime(_)
CalcRequestTime(retry_counter) ==
    IF retry_counter < Retries
    THEN RetryDelay(retry_counter + 1) + CalcRequestTime(retry_counter + 1)
    ELSE 0

\* A retry list that has ValidationException in it.
RetriedClassNamesWide == {"NotSynchronizedException", "TimeoutException",
                          "NotAuthenticatedException", "InternalException",
                          "ValidationException"}

\* The class names line 1103 retries.
RetriedClassNames == {"NotSynchronizedException", "TimeoutException",
                      "NotAuthenticatedException", "InternalException"}

\* The call suspends in asyncio.sleep(delay) (line 1096, line 1106).
Sleep(S, c, err, delay) ==
    [S EXCEPT !.calls[c].pc = "backoff", !.calls[c].err = err,
              !.calls[c].delay = delay, !.calls[c].awaits = NoFutureId,
              !.calls[c].instance = 0]

\* After the sleep: retry_counter += 1, the test of lines 1100 and 1111 and
\* the next turn of the loop (line 1083).
AfterSleep(S, c, err) ==
    LET S1 == [S EXCEPT !.calls[c].retryCounter = @ + 1, !.calls[c].delay = 0,
                        !.calls[c].err = err, !.calls[c].awaits = NoFutureId,
                        !.calls[c].instance = 0]
    IN  IF S.calls[c].acc \notin DOMAIN S.byAcc
        THEN Raise(S1, c, err,
                   IF err.class = "TooManyRequestsException" THEN 1101 ELSE 1112)
        ELSE MakeRequest(S1, c)

\* An attempt ended with the exception err: line 1079 for trade and
\* subscribe, the except blocks of lines 1084-1112 for the other types.
HandleError(S, c, err) ==
    LET retry_counter == S.calls[c].retryCounter
    IN  IF S.calls[c].type \in SingleAttemptTypes
        THEN Raise(S, c, err, 1079)
        ELSE IF err.class = "TooManyRequestsException"
        THEN IF /\ now + CalcRequestTime(retry_counter) > err.recommendedRetryTime
                /\ retry_counter < Retries
             THEN IF now < err.recommendedRetryTime
                  THEN Sleep(S, c, err, err.recommendedRetryTime - now)
                  ELSE AfterSleep(S, c, err)
             ELSE Raise(S, c, err, 1099)
        ELSE IF err.class \in RetriedClassNames /\ retry_counter < Retries
        THEN Sleep(S, c, err, RetryDelay(retry_counter))
        ELSE Raise(S, c, err, 1110)

\* ---------------------------------------------------------------- placement
\* The key of _connectedHosts for an account instance on host "h":
\* accountId:instanceNumber:host (line 1202).
HostKey(account_id, instance_number) ==
    InstanceId(account_id, instance_number) \o <<":", "h">>

\* subscribed_account_ids(socket_instance_index); None is written -1.
None == -1
SubscribedAccountIds(byAcc, socket_instance_index) ==
    {a \in DOMAIN byAcc :
        /\ \E instance_id \in connectedHosts : SplitAccount(instance_id) = a
        /\ byAcc[a] = socket_instance_index \/ socket_instance_index = None}

\* get_assigned_accounts(socket_instance_index)
GetAssignedAccounts(byAcc, socket_instance_index) ==
    {a \in DOMAIN byAcc : byAcc[a] = socket_instance_index}

\* The test of the while loop of lines 1041-1046.
LockBlocks(byAcc) ==
    LET subscribed == Cardinality(SubscribedAccountIds(byAcc, None))
    IN  /\ subscribeLock.set
        /\ \/ /\ subscribeLock.recommendedRetryTime > now
              /\ subscribed < subscribeLock.lockedAtAccounts
           \/ /\ subscribeLock.lockedAtTime + SubscribeCooldownInSeconds > now
              /\ subscribed >= subscribeLock.lockedAtAccounts

\* A scan that passes over a socket with a LIMIT_ACCOUNT_SUBSCRIPTIONS_PER_SERVER
\* lock when either of the two conditions holds.
SkippedEither(S, index) ==
    LET lock == ListOf(S)[index + 1].subscribeLock
        subscribed == Cardinality(SubscribedAccountIds(S.byAcc, index))
    IN  /\ lock.set
        /\ lock.recommendedRetryTime > now \/ subscribed >= lock.lockedAtAccounts

\* Whether the scan of lines 1048-1064 passes over the socket at index.
Skipped(S, index) ==
    LET lock == ListOf(S)[index + 1].subscribeLock
        subscribed == Cardinality(SubscribedAccountIds(S.byAcc, index))
    IN  /\ lock.set
        /\ \/ /\ lock.type = PER_USER_PER_SERVER
              /\ lock.recommendedRetryTime > now \/ subscribed >= lock.lockedAtAccounts
           \/ /\ lock.type = PER_SERVER
              /\ lock.recommendedRetryTime > now /\ subscribed >= lock.lockedAtAccounts

\* The indexes the scan may choose: it takes the first of them.
Roomy(S) ==
    {index \in 0..(Len(ListOf(S)) - 1) :
        /\ ~Skipped(S, index)
        /\ Cardinality(GetAssignedAccounts(S.byAcc, index)) < MaxAccountsPerInstance}

\* Lines 1069-1083: the instance of the index, the wait for its connect to
\* resolve, and the first attempt.
AfterAssign(S, c, index) ==
    IF index >= Len(ListOf(S))
    THEN Raise(S, c, Error("IndexError", 0), 1069)
    ELSE LET s == closedInstances + index + 1
         IN  IF S.sockets[s].resolved
             THEN MakeRequest(S, c)
             ELSE [S EXCEPT !.calls[c].pc = "waitConnect",
                            !.calls[c].index = index,
                            !.calls[c].instance = s]

\* Lines 1048-1068 for an account without assignment: the scan, and either
\* the assignment or connect() up to its first await (lines 205-339), which
\* appends the new instance to the list before it suspends.
Place(S, c) ==
    IF Roomy(S) # {}
    THEN LET index == CHOOSE i \in Roomy(S) : \A j \in Roomy(S) : i <= j
         IN  AfterAssign([S EXCEPT !.byAcc = Put(@, S.calls[c].acc, index)], c, index)
    ELSE [S EXCEPT !.sockets = Append(@, NewInstance(Len(ListOf(S)))),
                   !.calls[c].pc = "connecting",
                   !.calls[c].index = Len(ListOf(S)),
                   !.calls[c].instance = Len(S.sockets) + 1]

\* The model makes at most MaxSockets instances.
MayPlace(S) == Roomy(S) # {} \/ Len(S.sockets) < MaxSockets

notRPC == <<smVars, eqVars, closedInstances, closer, subscribeLock, connectedHosts,
            unsubscribing, throttleVars, syncVars, now>>

\* rpc_request with the loop on the lock of the client ahead of the test of
\* line 1037.
RpcRequestLockFirst(c, account_id, type, request_id) ==
    LET S == [Cur EXCEPT !.calls[c] = [NoCall EXCEPT !.pc = "start",
                                                    !.acc = account_id,
                                                    !.type = type,
                                                    !.requestId = request_id]]
    IN  /\ calls[c].pc = "idle"
        /\ IF LockBlocks(socketInstancesByAccounts)
           THEN Commit([S EXCEPT !.calls[c].pc = "lockPoll"])
           ELSE IF account_id \in DOMAIN socketInstancesByAccounts
           THEN Commit(AfterAssign(S, c, socketInstancesByAccounts[account_id]))
           ELSE MayPlace(S) /\ Commit(Place(S, c))
        /\ UNCHANGED notRPC

\* rpc_request(account_id, request) from its first line to its first await;
\* request_id is request['requestId'], 0 when the request carries none.
RpcRequest(c, account_id, type, request_id) ==
    LET S == [Cur EXCEPT !.calls[c] = [NoCall EXCEPT !.pc = "start",
                                                    !.acc = account_id,
                                                    !.type = type,
                                                    !.requestId = request_id]]
    IN  /\ calls[c].pc = "idle"
        /\ IF account_id \in DOMAIN socketInstancesByAccounts
           THEN Commit(AfterAssign(S, c, socketInstancesByAccounts[account_id]))
           ELSE IF LockBlocks(socketInstancesByAccounts)
           THEN Commit([S EXCEPT !.calls[c].pc = "lockPoll"])
           ELSE MayPlace(S) /\ Commit(Place(S, c))
        /\ UNCHANGED notRPC

\* The sleep(1) of line 1047 ends and the test of the loop is false.
RpcLockPoll(c) ==
    /\ calls[c].pc = "lockPoll"
    /\ ~LockBlocks(socketInstancesByAccounts)
    /\ MayPlace(Cur)
    /\ Commit(Place(Cur, c))
    /\ UNCHANGED notRPC

\* connect() returns (its loop of line 333 ends when the socket is
\* connected): line 1068 and on.
RpcConnectReturn(c) ==
    /\ calls[c].pc = "connecting"
    /\ socketInstances[calls[c].instance].socketConnected
    /\ Commit(AfterAssign(
          [Cur EXCEPT !.byAcc = Put(@, calls[c].acc, calls[c].index)],
          c, calls[c].index))
    /\ UNCHANGED notRPC

\* The loop of lines 1071-1072 ends because the instance is resolved.
RpcConnectResolved(c) ==
    /\ calls[c].pc = "waitConnect"
    /\ socketInstances[calls[c].instance].resolved
    /\ Commit(MakeRequest(Cur, c))
    /\ UNCHANGED notRPC

\* A wait for the connect that drops the assignment of the account when it
\* times out.
RpcConnectTimeoutDrops(c) ==
    /\ calls[c].pc = "waitConnect"
    /\ ~socketInstances[calls[c].instance].resolved
    /\ Commit(Raise([Cur EXCEPT !.byAcc = IF calls[c].acc \in DOMAIN @
                                           THEN Remove(@, calls[c].acc) ELSE @],
                    c, Error("TimeoutException", 0), 1074))
    /\ UNCHANGED notRPC

\* The loop of lines 1071-1072 ends because connect_timeout has passed.
RpcConnectTimeout(c) ==
    /\ calls[c].pc = "waitConnect"
    /\ ~socketInstances[calls[c].instance].resolved
    /\ Commit(Raise(Cur, c, Error("TimeoutException", 0), 1074))
    /\ UNCHANGED notRPC

\* emit returns; line 1129 looks the future up again under the request id.
EmitDone(c) ==
    LET resolves == socketInstances[calls[c].instance].requestResolves
    IN  /\ calls[c].pc = "emitting"
        /\ IF calls[c].requestId \in DOMAIN resolves
           THEN Commit([Cur EXCEPT !.calls[c].pc = "waiting",
                                   !.calls[c].awaits = resolves[calls[c].requestId]])
           ELSE Commit(HandleError(Cur, c, Error("KeyError", 0)))
        /\ UNCHANGED notRPC

\* emit raises because the socket is not connected.
EmitFails(c) ==
    /\ calls[c].pc = "emitting"
    /\ ~socketInstances[calls[c].instance].socketConnected
    /\ Commit(HandleError(Cur, c, Error("BadNamespaceError", 0)))
    /\ UNCHANGED notRPC

\* The future the call awaits is done: wait_for returns its result, raises
\* its exception, or raises CancelledError, which no except block of
\* rpc_request catches.
RpcResume(c) ==
    LET f == futures[calls[c].awaits]
    IN  /\ calls[c].pc = "waiting"
        /\ f.state \in {"result", "exception", "cancelled"}
        /\ CASE f.state = "result" -> Commit(Return(Cur, c, f.value))
             [] f.state = "exception" -> Commit(HandleError(Cur, c, f.err))
             [] f.state = "cancelled" ->
                    Commit(Raise(Cur, c, Error("CancelledError", 0), 1129))
        /\ UNCHANGED notRPC

\* A timeout that leaves the entry of the request in the map.
RpcTimeoutKeepsEntry(c) ==
    LET S == [Cur EXCEPT !.futures[calls[c].awaits].state = "cancelled"]
    IN  /\ calls[c].pc = "waiting"
        /\ futures[calls[c].awaits].state = "pending"
        /\ Commit(HandleError(S, c, Error("TimeoutException", 0)))
        /\ UNCHANGED notRPC

\* wait_for times out: it cancels the future; lines 1131-1136.
RpcTimeout(c) ==
    LET s == calls[c].instance
        request_id == calls[c].requestId
        S == [Cur EXCEPT
                !.futures[calls[c].awaits].state = "cancelled",
                !.sockets[s].requestResolves =
                    IF request_id \in DOMAIN @ THEN Remove(@, request_id) ELSE @]
    IN  /\ calls[c].pc = "waiting"
        /\ futures[calls[c].awaits].state = "pending"
        /\ Commit(HandleError(S, c, Error("TimeoutException", 0)))
        /\ UNCHANGED notRPC

\* The task that runs the call is cancelled while the call awaits the
\* response (line 1129), as cancel_subscribe does with the task of a
\* subscribe attempt (subscriptionManager.py line 99): wait_for cancels the
\* future and CancelledError leaves _make_request, whose except block names
\* asyncio.TimeoutError alone, and rpc_request.
RpcCancelled(c) ==
    /\ calls[c].pc = "waiting"
    /\ futures[calls[c].awaits].state = "pending"
    /\ Commit(Raise([Cur EXCEPT !.futures[calls[c].awaits].state = "cancelled"],
                    c, Error("CancelledError", 0), 1129))
    /\ UNCHANGED notRPC

\* The sleep of line 1096 or line 1106 ends.
BackoffDone(c) ==
    /\ calls[c].pc = "backoff"
    /\ Commit(AfterSleep(Cur, c, calls[c].err))
    /\ UNCHANGED notRPC

\* ------------------------------------------------------- inbound frames
\* A handler that completes some pending request when the id of the frame
\* names none.
PendingKeyAny(requestResolves, request_id) ==
    IF request_id \in DOMAIN requestResolves \/ DOMAIN requestResolves = {}
    THEN request_id
    ELSE CHOOSE k \in DOMAIN requestResolves : TRUE

\* The key on_response and on_processing_error look up in
\* instance['requestResolves']: data['requestId'].
PendingKey(requestResolves, request_id) == request_id

\* The handler took the future f out of the map of instance s; completed is
\* the future as set_result or set_exception leaves it.
Completed(s, key, completed) ==
    LET f == socketInstances[s].requestResolves[key]
    IN  [Cur EXCEPT !.sockets[s].requestResolves = Remove(@, key),
                    !.futures[f] = IF @.state = "pending" THEN completed ELSE @]

\* on_response(data) on the socket of instance s (lines 263-277)
OnResponse(s, request_id) ==
    LET key == PendingKey(socketInstances[s].requestResolves, request_id)
    IN  /\ s \in 1..Len(socketInstances)
        /\ socketInstances[s].socketConnected
        /\ IF key \in DOMAIN socketInstances[s].requestResolves
           THEN Commit(Completed(s, key,
                    [futures[socketInstances[s].requestResolves[key]] EXCEPT
                        !.state = "result", !.value = request_id, !.from = s]))
           ELSE UNCHANGED <<calls, futures, socketInstances, socketInstancesByAccounts>>
        /\ UNCHANGED notRPC

\* on_processing_error(data) on the socket of instance s (lines 290-296).
\* For UnauthorizedError _convert_error evaluates self.close() (line 1153):
\* close is a coroutine function, the call makes a coroutine object that is
\* neither awaited nor scheduled, so no line of close() runs.
OnProcessingError(s, request_id, error, recommendedRetryTime) ==
    LET key == PendingKey(socketInstances[s].requestResolves, request_id)
    IN  /\ s \in 1..Len(socketInstances)
        /\ socketInstances[s].socketConnected
        /\ IF key \in DOMAIN socketInstances[s].requestResolves
           THEN Commit(Completed(s, key,
                    [futures[socketInstances[s].requestResolves[key]] EXCEPT
                        !.state = "exception", !.value = request_id, !.from = s,
                        !.err = Error(ConvertError(error), recommendedRetryTime)]))
           ELSE UNCHANGED <<calls, futures, socketInstances, socketInstancesByAccounts>>
        /\ UNCHANGED notRPC

\* ------------------------------------------------------------ the sockets
notSockets == <<smVars, eqVars, socketInstancesByAccounts, closedInstances, calls,
                futures, closer, subscribeLock, connectedHosts, unsubscribing,
                throttleVars, syncVars, now>>

\* The connect of a socket succeeds while connect() is in its loop (lines
\* 333-343): the socket is connected and on_connect runs (lines 227-235); an
\* instance that close() has marked is disconnected again at once.
SocketConnect(s) ==
    /\ s \in 1..Len(socketInstances)
    /\ \E c \in CallIds : calls[c].pc = "connecting" /\ calls[c].instance = s
    /\ ~socketInstances[s].socketConnected
    /\ socketInstances' = [socketInstances EXCEPT
          ![s].resolved = TRUE,
          ![s].socketConnected = socketInstances[s].connected]
    /\ UNCHANGED notSockets

\* on_connect_error, on_connect_timeout (lines 237-250)
SocketConnectError(s) ==
    /\ s \in 1..Len(socketInstances)
    /\ \/ \E c \in CallIds : calls[c].pc = "connecting" /\ calls[c].instance = s
       \/ socketInstances[s].reconnect = "connecting"
    /\ ~socketInstances[s].socketConnected
    /\ ~socketInstances[s].resolved
    /\ socketInstances' = [socketInstances EXCEPT ![s].resolved = TRUE]
    /\ UNCHANGED notSockets

\* A _reconnect that does not look at isReconnecting.
ReconnectStartUnchecked(socket_instance_index) ==
    LET s == closedInstances + socket_instance_index + 1
    IN  IF socket_instance_index >= Len(SocketList)
        THEN socketInstances
        ELSE [socketInstances EXCEPT
                 ![s].isReconnecting = TRUE,
                 ![s].reconnect = IF socketInstances[s].connected
                                  THEN "disconnecting" ELSE "none"]

\* _reconnect(socket_instance_index) from its first line to its first await
\* (lines 1003-1009), as the new value of the instances.
ReconnectStart(socket_instance_index) ==
    LET s == closedInstances + socket_instance_index + 1
    IN  IF socket_instance_index >= Len(SocketList)
        THEN socketInstances            \* IndexError
        ELSE IF socketInstances[s].isReconnecting
        THEN socketInstances
        ELSE [socketInstances EXCEPT
                 ![s].isReconnecting = TRUE,
                 ![s].reconnect = IF socketInstances[s].connected
                                  THEN "disconnecting" ELSE "none"]

\* The socket of an account gets a new sessionId (line 1013): a packet not
\* yet processed that carries the sessionId the socket had carries another
\* one than the socket has from now on.
PacketsAfterNewSession(id) ==
    [a \in DOMAIN packets |->
        IF a \in DOMAIN socketInstancesByAccounts /\ socketInstancesByAccounts[a] = id
        THEN [e \in 1..Len(packets[a]) |->
                 IF packets[a][e].pc = "created" /\ packets[a][e].session = "current"
                 THEN [packets[a][e] EXCEPT !.session = "other"]
                 ELSE packets[a][e]]
        ELSE packets[a]]

\* _reconnect: disconnect() returned; lines 1010-1016.
ReconnectDisconnected(s) ==
    /\ s \in 1..Len(socketInstances)
    /\ socketInstances[s].reconnect = "disconnecting"
    /\ socketInstances' = [socketInstances EXCEPT
          ![s].socketConnected = FALSE, ![s].resolved = FALSE,
          ![s].reconnect = "connecting"]
    /\ packets' = PacketsAfterNewSession(socketInstances[s].id)
    /\ UNCHANGED <<smVars, eventQueues, events, drainers, started,
                   synchronizationListeners, latencyListeners, reconnectListeners,
                   statusTimers, supervisor, raised, socketInstancesByAccounts,
                   closedInstances, calls, futures, closer, subscribeLock,
                   connectedHosts, unsubscribing, throttleVars, syncVars, now>>

\* _reconnect: the connect raised or timed out; lines 1024-1027 and the test
\* of the loop (line 1007).
ReconnectFailed(s) ==
    /\ s \in 1..Len(socketInstances)
    /\ socketInstances[s].reconnect = "connecting"
    /\ socketInstances' = [socketInstances EXCEPT
          ![s].reconnect = IF socketInstances[s].connected
                           THEN "disconnecting" ELSE "none"]
    /\ UNCHANGED notSockets

\* _reconnect: the socket is connected and connectResult is set (on_connect,
\* which disconnects at once the socket of an instance that close() has
\* marked, lines 233-234); lines 1019-1023 with _fire_reconnected (lines
\* 1897-1924), which hands the accounts of the reconnect listeners on this
\* socket to the subscription manager.
ReconnectConnected(s, listeners) ==
    LET reconnect_account_ids ==
            {a \in listeners : /\ a \in DOMAIN socketInstancesByAccounts
                               /\ socketInstancesByAccounts[a] = socketInstances[s].id}
    IN  /\ s \in 1..Len(socketInstances)
        /\ socketInstances[s].reconnect = "connecting"
        /\ socketInstances' = [socketInstances EXCEPT
              ![s].socketConnected = socketInstances[s].connected,
              ![s].resolved = TRUE,
              ![s].isReconnecting = FALSE, ![s].reconnect = "none"]
        /\ OnReconnectedEffect(socketInstances[s].id, reconnect_account_ids)
        /\ UNCHANGED <<awaitingResubscribe, lockTasks, eqVars,
                       socketInstancesByAccounts, wsVars>>

\* The server or the network drops the connection of a socket: on_disconnect
\* (lines 252-256) calls _reconnect(instance['id']).
SocketDisconnected(s) ==
    /\ s \in 1..Len(socketInstances)
    /\ socketInstances[s].socketConnected
    /\ socketInstances' =
          [ReconnectStart(socketInstances[s].id) EXCEPT ![s].socketConnected = FALSE]
    /\ UNCHANGED notSockets

\* The socket reports an error: on_error (lines 258-261) calls
\* _reconnect(instance['id']), whatever the socket is doing.
SocketError(s) ==
    /\ s \in 1..Len(socketInstances)
    /\ socketInstances' = ReconnectStart(socketInstances[s].id)
    /\ UNCHANGED notSockets

\* ------------------------------------------------------------------ close
NoCloser == [pc |-> "idle", index |-> 0]

\* The loop of close() (lines 349-352) from the instance at index `from` to
\* its next await, or to the end of close() (lines 358-362).
CloseLoop(S, from) ==
    LET open == {i \in from..(Len(ListOf(S)) - 1) : ListOf(S)[i + 1].connected}
        index == CHOOSE i \in open : \A j \in open : i <= j
    IN  IF open = {}
        THEN /\ Commit([S EXCEPT !.byAcc = <<>>])
             /\ closedInstances' = Len(S.sockets)
             /\ closer' = NoCloser
             /\ synchronizationListeners' = <<>>
             /\ latencyListeners' = <<>>
        ELSE /\ Commit([S EXCEPT !.sockets[closedInstances + index + 1].connected = FALSE])
             /\ closer' = [pc |-> "disconnecting", index |-> index]
             /\ UNCHANGED <<closedInstances, synchronizationListeners, latencyListeners>>

notClose == <<smVars, eventQueues, events, drainers, started, reconnectListeners,
              statusTimers, packets, supervisor, raised, subscribeLock,
              connectedHosts, unsubscribing, throttleVars, syncVars, now>>

\* close() is called.
CloseCall ==
    /\ closer.pc = "idle"
    /\ CloseLoop(Cur, 0)
    /\ UNCHANGED notClose

\* disconnect() returns (line 352): on_disconnect has run and found the
\* instance marked; lines 353-357 fail the pending requests of the instance
\* and the loop goes on.
CloseResume ==
    LET s == closedInstances + closer.index + 1
        pending == {socketInstances[s].requestResolves[r] :
                       r \in DOMAIN socketInstances[s].requestResolves}
        S == [Cur EXCEPT
                !.sockets[s].isReconnecting = @ \/ socketInstances[s].socketConnected,
                !.sockets[s].socketConnected = FALSE,
                !.sockets[s].requestResolves = <<>>,
                !.futures = [f \in FutureIds |->
                    IF f \in pending /\ futures[f].state = "pending"
                    THEN [futures[f] EXCEPT !.state = "exception",
                                            !.err = Error("Exception", 0)]
                    ELSE futures[f]]]
    IN  /\ closer.pc = "disconnecting"
        /\ CloseLoop(S, closer.index + 1)
        /\ UNCHANGED notClose

\* ------------------------------------------------------------ unsubscribe
notUnsubscribe == <<smVars, eqVars, socketInstances, closedInstances, calls, futures,
                    closer, subscribeLock, connectedHosts, now, throttleVars, syncVars>>

\* unsubscribe(account_id) up to the await of line 884.
UnsubscribeCall(account_id) ==
    /\ account_id \notin unsubscribing
    /\ unsubscribing' = unsubscribing \cup {account_id}
    /\ UNCHANGED <<socketInstancesByAccounts, notUnsubscribe>>

\* self._subscriptionManager.unsubscribe(account_id) returns, or raises an
\* exception of the given class; lines 885-887.  The del of an account
\* without assignment raises KeyError.
UnsubscribeResume(account_id, outcome) ==
    /\ account_id \in unsubscribing
    /\ unsubscribing' = unsubscribing \ {account_id}
    /\ socketInstancesByAccounts' =
          IF outcome = "returned" /\ account_id \in DOMAIN socketInstancesByAccounts
          THEN Remove(socketInstancesByAccounts, account_id)
          ELSE socketInstancesByAccounts
    /\ UNCHANGED notUnsubscribe

UnsubscribeOutcomes == {"returned", "NotFoundException", "TimeoutException",
                        "Exception"}

\* ------------------------------------------------------- subscribe locks
\* A subscribe_task of the account, whose loop is not followed here, gets
\* TooManyRequestsException of a LIMIT_ACCOUNT_SUBSCRIPTIONS type
\* (subscriptionManager.py lines 49-58); the error has come over the
\* connected socket of the account.
SubscribeTaskLimit(account_id, type, recommendedRetryTime) ==
    /\ account_id \in DOMAIN socketInstancesByAccounts
    /\ Connected(socketInstancesByAccounts[account_id])
    /\ type \in LimitTypes
    /\ AssignmentDropped(account_id, type, recommendedRetryTime)
    /\ UNCHANGED <<subscriptions, awaitingResubscribe, tasks, socketInstances,
                   eqVars, wsVars>>

\* A lock_socket_instance that locks the socket whatever the number of its
\* subscribed accounts.
LockSocketInstanceAlways(l) ==
    LET subscribed == SubscribedAccountIds(socketInstancesByAccounts, l.index)
        s == closedInstances + l.index + 1
    IN  /\ l \in lockTasks
        /\ l.type # PER_USER
        /\ l.index < Len(SocketList)
        /\ lockTasks' = lockTasks \ {l}
        /\ socketInstances' = [socketInstances EXCEPT ![s].subscribeLock =
                                  [set |-> TRUE, type |-> l.type,
                                   recommendedRetryTime |-> l.recommendedRetryTime,
                                   lockedAtAccounts |-> Cardinality(subscribed),
                                   lockedAtTime |-> 0]]
        /\ UNCHANGED <<subscriptions, awaitingResubscribe, tasks, eqVars,
                       socketInstancesByAccounts, closedInstances, calls, futures,
                       closer, subscribeLock, connectedHosts, unsubscribing,
                       throttleVars, syncVars, now>>

\* lock_socket_instance(socket_instance_index, metadata) runs (lines 174-197).
LockSocketInstance(l) ==
    LET subscribed == SubscribedAccountIds(socketInstancesByAccounts, l.index)
        s == closedInstances + l.index + 1
    IN  /\ l \in lockTasks
        /\ lockTasks' = lockTasks \ {l}
        /\ IF l.type = PER_USER
           THEN /\ subscribeLock' =
                      [set |-> TRUE, type |-> "",
                       recommendedRetryTime |-> l.recommendedRetryTime,
                       lockedAtAccounts |->
                           Cardinality(SubscribedAccountIds(socketInstancesByAccounts, None)),
                       lockedAtTime |-> now]
                /\ UNCHANGED socketInstances
           ELSE /\ socketInstances' =
                      IF subscribed = {}
                      THEN ReconnectStart(l.index)
                      ELSE IF l.index >= Len(SocketList)
                      THEN socketInstances      \* IndexError
                      ELSE [socketInstances EXCEPT ![s].subscribeLock =
                               [set |-> TRUE, type |-> l.type,
                                recommendedRetryTime |-> l.recommendedRetryTime,
                                lockedAtAccounts |-> Cardinality(subscribed),
                                lockedAtTime |-> 0]]
                /\ UNCHANGED subscribeLock
        /\ UNCHANGED <<subscriptions, awaitingResubscribe, tasks, eqVars,
                       socketInstancesByAccounts, closedInstances, calls, futures,
                       closer, connectedHosts, unsubscribing, throttleVars, syncVars, now>>

\* An authenticated packet of an account instance is processed (lines
\* 1289-1308): the host is recorded when the packet carries no sessionId or
\* the sessionId of the socket of the account; with listeners registered for
\* the account its subscription is cancelled.
AuthenticatedPacket(account_id, instance_number, hasSessionId, sameSession, hasListeners) ==
    LET socket_instance ==
            /\ account_id \in DOMAIN socketInstancesByAccounts
            /\ socketInstancesByAccounts[account_id] < Len(SocketList)
        accepted == ~hasSessionId \/ (socket_instance /\ sameSession)
    IN  /\ connectedHosts' = IF accepted
                             THEN connectedHosts \cup {HostKey(account_id, instance_number)}
                             ELSE connectedHosts
        /\ IF accepted /\ hasListeners
           THEN /\ subscriptions' =
                      SubscriptionsAfterCancel({InstanceId(account_id, instance_number)})
                /\ tasks' = TasksAfterCancel({InstanceId(account_id, instance_number)})
           ELSE UNCHANGED <<subscriptions, tasks>>
        /\ UNCHANGED <<awaitingResubscribe, lockTasks, poolVars, eqVars,
                       closedInstances, calls, futures, closer, subscribeLock,
                       unsubscribing, throttleVars, syncVars, now>>

\* A second passes.
Tick ==
    /\ now < MaxTime
    /\ now' = now + 1
    /\ UNCHANGED <<smVars, poolVars, eqVars, closedInstances, calls, futures, closer,
                   subscribeLock, connectedHosts, unsubscribing, throttleVars, syncVars>>

\* ------------------------------------------------------ listener registry
\* Listener objects, told apart by identity.
Listeners == 1..NumListeners

\* list.remove(x) on a list that contains x: the first occurrence goes.
RemoveFirst(list, x) ==
    LET at == {i \in 1..Len(list) : list[i] = x}
        first == CHOOSE i \in at : \A j \in at : i <= j
    IN  IF at = {} THEN list
        ELSE SubSeq(list, 1, first - 1) \o SubSeq(list, first + 1, Len(list))

\* What the registry actions leave alone.
notListeners == <<smVars, poolVars, wsVars, eventQueues, events, drainers, started,
                  statusTimers, packets, supervisor>>

\* add_synchronization_listener (lines 889-900)
AddSynchronizationListener(account_id, listener) ==
    LET listeners == IF account_id \in DOMAIN synchronizationListeners
                     THEN synchronizationListeners[account_id] ELSE <<>>
    IN  /\ Len(listeners) < MaxRegistered
        /\ synchronizationListeners' =
              Put(synchronizationListeners, account_id, Append(listeners, listener))
        /\ raised' = ""
        /\ UNCHANGED <<latencyListeners, reconnectListeners, notListeners>>

\* remove_synchronization_listener (lines 902-916): the lookup of line 909
\* raises KeyError for an account that has no entry.
RemoveSynchronizationListener(account_id, listener) ==
    /\ IF account_id \notin DOMAIN synchronizationListeners
       THEN /\ raised' = "KeyError"
            /\ UNCHANGED synchronizationListeners
       ELSE /\ synchronizationListeners' =
                  [synchronizationListeners EXCEPT ![account_id] = RemoveFirst(@, listener)]
            /\ raised' = ""
    /\ UNCHANGED <<latencyListeners, reconnectListeners, notListeners>>

\* add_latency_listener (lines 918-925)
AddLatencyListener(listener) ==
    /\ Len(latencyListeners) < MaxRegistered
    /\ latencyListeners' = Append(latencyListeners, listener)
    /\ raised' = ""
    /\ UNCHANGED <<synchronizationListeners, reconnectListeners, notListeners>>

\* remove_latency_listener (lines 927-933)
RemoveLatencyListener(listener) ==
    /\ latencyListeners' = SelectSeq(latencyListeners, LAMBDA l : l # listener)
    /\ raised' = ""
    /\ UNCHANGED <<synchronizationListeners, reconnectListeners, notListeners>>

\* add_reconnect_listener (lines 935-942)
AddReconnectListener(listener, account_id) ==
    /\ Len(reconnectListeners) < MaxRegistered
    /\ reconnectListeners' =
          Append(reconnectListeners, [accountId |-> account_id, listener |-> listener])
    /\ raised' = ""
    /\ UNCHANGED <<synchronizationListeners, latencyListeners, notListeners>>

\* remove_reconnect_listener (lines 944-951): the first entry of the
\* listener goes.
RemoveReconnectListener(listener) ==
    LET at == {i \in 1..Len(reconnectListeners) : reconnectListeners[i].listener = listener}
    IN  /\ reconnectListeners' =
              IF at = {} THEN reconnectListeners
              ELSE RemoveFirst(reconnectListeners,
                       reconnectListeners[CHOOSE i \in at : \A j \in at : i <= j])
        /\ raised' = ""
        /\ UNCHANGED <<synchronizationListeners, latencyListeners, notListeners>>

\* remove_all_listeners (lines 953-957)
RemoveAllListeners ==
    /\ synchronizationListeners' = <<>>
    /\ reconnectListeners' = <<>>
    /\ raised' = ""
    /\ UNCHANGED <<latencyListeners, notListeners>>

\* ------------------------------------------------------------ event router
\* _process_synchronization_packet for the packets authenticated, status and
\* disconnected, and the on_disconnected event the watchdog queues (type
\* "timeout").  host is "" for a packet without host; session tells whether
\* the packet carries no sessionId, the sessionId of the socket of the
\* account, or another one.  The status packets of the model carry
\* authenticated = False and no healthStatus.
Hosts == {"h", "g"}

\* instance_id of lines 1201-1203 (instance_number is 0 in the packets).
RouteKey(account_id, host) ==
    InstanceId(account_id, 0) \o <<":", IF host = "" THEN "0" ELSE host>>

\* The event coroutine of a packet, not yet run.
NewPacket(type, host, session) ==
    [type |-> type, host |-> host, session |-> session, pc |-> "created",
     calls |-> <<>>, awaits |-> 0]

\* An is_only_active_instance that does not look at the other hosts.
IsOnlyActiveInstanceAlone(account_id, host) ==
    RouteKey(account_id, host) \in connectedHosts

\* is_only_active_instance (lines 1225-1229)
IsOnlyActiveInstance(account_id, host) ==
    LET active_instance_ids ==
            {key \in connectedHosts : StartsWith(key, InstanceId(account_id, 0))}
    IN  active_instance_ids = {RouteKey(account_id, host)}

\* cancel_disconnect_timer (lines 1231-1233), as the new value of the timers.
\* task is the state of the task _status_timers holds for the instance.
CancelDisconnectTimer(instance_id) ==
    IF instance_id \in DOMAIN statusTimers /\ statusTimers[instance_id].task = "pending"
    THEN [statusTimers EXCEPT ![instance_id].task = "cancelled"]
    ELSE statusTimers

\* reset_disconnect_timer (lines 1235-1243): stale counts the watchdog tasks
\* of the instance that still sleep and are no longer held in _status_timers.
ResetDisconnectTimer(instance_id) ==
    LET cancelled == CancelDisconnectTimer(instance_id)
        stale == IF instance_id \notin DOMAIN cancelled THEN 0
                 ELSE cancelled[instance_id].stale +
                      (IF cancelled[instance_id].task = "pending" THEN 1 ELSE 0)
    IN  Put(cancelled, instance_id, [task |-> "pending", stale |-> stale])

\* The tasks run_on_...(listener) an event creates for the listeners of the
\* account, in the order of the list.
ListenerCalls(account_id, name) ==
    IF account_id \in DOMAIN synchronizationListeners
    THEN [i \in 1..Len(synchronizationListeners[account_id]) |->
             [listener |-> synchronizationListeners[account_id][i],
              name |-> name, state |-> "created"]]
    ELSE <<>>

\* What the event router leaves alone.
notRoute == <<awaitingResubscribe, lockTasks, poolVars, closedInstances, calls,
              futures, closer, subscribeLock, unsubscribing, throttleVars, syncVars, now,
              synchronizationListeners, latencyListeners, reconnectListeners, raised>>

\* queue_packet for a packet the orderer hands on as it is (lines 959-977).
ReceivePacket(account_id, type, host, session, hasSequenceNumber) ==
    /\ Len(events[account_id]) < MaxRouteEvents
    /\ IF sequentialEventProcessing /\ hasSequenceNumber
       THEN Enqueue(account_id, 1)
       ELSE /\ events' = EventsCreated(account_id, 1, FALSE)
            /\ UNCHANGED <<eventQueues, drainers>>
    /\ packets' = [packets EXCEPT ![account_id] = Append(@, NewPacket(type, host, session))]
    /\ UNCHANGED <<started, subscriptions, tasks, connectedHosts, statusTimers,
                   supervisor, notRoute>>

\* A watchdog that queues its event without telling the supervisor.
WatchdogFiresSilent(account_id, host) ==
    LET instance_id == RouteKey(account_id, host)
    IN  /\ instance_id \in DOMAIN statusTimers
        /\ statusTimers[instance_id].task = "pending"
        /\ Len(events[account_id]) < MaxRouteEvents
        /\ statusTimers' = [statusTimers EXCEPT ![instance_id].task = "fired"]
        /\ Enqueue(account_id, 1)
        /\ packets' = [packets EXCEPT ![account_id] =
                          Append(@, NewPacket("timeout", host, "none"))]
        /\ UNCHANGED <<started, subscriptions, tasks, connectedHosts, supervisor, notRoute>>

\* The sleep(60) of the watchdog of an instance ends: disconnect() of lines
\* 1236-1240 with queue_event (lines 979-993).
WatchdogFires(account_id, host) ==
    LET instance_id == RouteKey(account_id, host)
    IN  /\ instance_id \in DOMAIN statusTimers
        /\ statusTimers[instance_id].task = "pending"
        /\ Len(events[account_id]) < MaxRouteEvents
        /\ FreeSlots # {}
        /\ statusTimers' = [statusTimers EXCEPT ![instance_id].task = "fired"]
        /\ IF IsOnlyActiveInstance(account_id, host)
           THEN /\ tasks' = TasksAfterOnTimeout(account_id, 0)
                /\ supervisor' = Append(supervisor, <<"on_timeout", account_id, host>>)
           ELSE UNCHANGED <<tasks, supervisor>>
        /\ Enqueue(account_id, 1)
        /\ packets' = [packets EXCEPT ![account_id] =
                          Append(@, NewPacket("timeout", host, "none"))]
        /\ UNCHANGED <<started, subscriptions, connectedHosts, notRoute>>

\* The event ends: its coroutine returns and its tasks are gone.
EventEnds(account_id, e, packet) ==
    /\ events' = [events EXCEPT ![account_id][e].state = "done"]
    /\ packets' = [packets EXCEPT ![account_id][e] =
                      [packet EXCEPT !.pc = "done", !.calls = <<>>, !.awaits = 0]]

\* The event goes on to the await of asyncio.gather, or ends when it has
\* created no task.
EventGathers(account_id, e, packet) ==
    IF packet.calls = <<>> /\ packet.awaits = 0
    THEN EventEnds(account_id, e, packet)
    ELSE /\ packets' = [packets EXCEPT ![account_id][e] = [packet EXCEPT !.pc = "gathering"]]
         /\ UNCHANGED events

\* An authenticated packet that records its host whatever its sessionId is.
AuthenticatedAcceptedAlways(account_id, session) == TRUE

\* The test of line 1291.
AuthenticatedAccepted(account_id, session) ==
    LET socket_instance ==
            /\ account_id \in DOMAIN socketInstancesByAccounts
            /\ socketInstancesByAccounts[account_id] < Len(SocketList)
    IN  session = "none" \/ (socket_instance /\ session = "current")

\* An authenticated packet from its first line to the await of gather
\* (lines 1289-1308).
AuthenticatedStart(account_id, e) ==
    LET packet == packets[account_id][e]
        instance_id == RouteKey(account_id, packet.host)
    IN  /\ statusTimers' = ResetDisconnectTimer(instance_id)
        /\ IF AuthenticatedAccepted(account_id, packet.session)
           THEN /\ connectedHosts' = IF packet.host # ""
                                     THEN connectedHosts \cup {instance_id}
                                     ELSE connectedHosts
                /\ IF account_id \in DOMAIN synchronizationListeners
                   THEN /\ subscriptions' =
                              SubscriptionsAfterCancel({InstanceId(account_id, 0)})
                        /\ tasks' = TasksAfterCancel({InstanceId(account_id, 0)})
                   ELSE UNCHANGED <<subscriptions, tasks>>
                /\ EventGathers(account_id, e,
                       [packet EXCEPT !.calls = ListenerCalls(account_id, "on_connected")])
           ELSE /\ EventEnds(account_id, e, packet)
                /\ UNCHANGED <<connectedHosts, subscriptions, tasks>>
        /\ UNCHANGED supervisor

\* A status packet (lines 1647-1675): for an instance in _connectedHosts the
\* watchdog is reset and the listeners are told; line 1671 raises KeyError,
\* caught at line 1894, when the account has no list of listeners.
StatusStart(account_id, e) ==
    LET packet == packets[account_id][e]
        instance_id == RouteKey(account_id, packet.host)
    IN  /\ IF instance_id \in connectedHosts
           THEN /\ statusTimers' = ResetDisconnectTimer(instance_id)
                /\ EventGathers(account_id, e,
                       [packet EXCEPT !.calls = ListenerCalls(account_id,
                                          "on_broker_connection_status_changed")])
           ELSE /\ EventEnds(account_id, e, packet)
                /\ UNCHANGED statusTimers
        /\ UNCHANGED <<connectedHosts, subscriptions, tasks, supervisor>>

\* on_disconnected(is_timeout) from its first line to the await of gather
\* (lines 1245-1283), or to its end for an instance that is not connected.
OnDisconnectedStart(account_id, e, is_timeout) ==
    LET packet == packets[account_id][e]
        instance_id == RouteKey(account_id, packet.host)
    IN  IF instance_id \notin connectedHosts
        THEN /\ EventEnds(account_id, e, packet)
             /\ UNCHANGED <<connectedHosts, tasks, supervisor>>
        ELSE IF IsOnlyActiveInstance(account_id, packet.host)
        THEN /\ IF is_timeout
                THEN UNCHANGED <<tasks, supervisor>>
                ELSE /\ FreeSlots # {}
                     /\ tasks' = TasksAfterOnDisconnected(account_id, 0)
                     /\ supervisor' =
                           Append(supervisor, <<"on_disconnected", account_id, packet.host>>)
             /\ IF is_timeout /\ ListenerCalls(account_id, "on_disconnected") = <<>>
                THEN /\ connectedHosts' = connectedHosts \ {instance_id}
                     /\ EventEnds(account_id, e, packet)
                ELSE /\ EventGathers(account_id, e,
                            [packet EXCEPT
                                !.calls = ListenerCalls(account_id, "on_disconnected"),
                                !.awaits = IF is_timeout THEN 0 ELSE NextSlot])
                     /\ UNCHANGED connectedHosts
        ELSE /\ IF ListenerCalls(account_id, "on_stream_closed") = <<>>
                THEN /\ connectedHosts' = connectedHosts \ {instance_id}
                     /\ EventEnds(account_id, e, packet)
                ELSE /\ EventGathers(account_id, e,
                            [packet EXCEPT
                                !.calls = ListenerCalls(account_id, "on_stream_closed")])
                     /\ UNCHANGED connectedHosts
             /\ UNCHANGED <<tasks, supervisor>>

\* An event coroutine runs from its first line to its first await:
\* _process_synchronization_packet for a packet (a disconnected packet
\* cancels the watchdog first, line 1312), on_disconnected(True) for the event
\* of the watchdog.
ProcessStart(account_id, e) ==
    LET packet == packets[account_id][e]
    IN  /\ e \in 1..Len(events[account_id])
        /\ events[account_id][e].state = "running"
        /\ packet.pc = "created"
        /\ CASE packet.type = "authenticated" -> AuthenticatedStart(account_id, e)
             [] packet.type = "status" -> StatusStart(account_id, e)
             [] packet.type = "disconnected" ->
                    /\ statusTimers' =
                          CancelDisconnectTimer(RouteKey(account_id, packet.host))
                    /\ OnDisconnectedStart(account_id, e, FALSE)
                    /\ UNCHANGED subscriptions
             [] packet.type = "timeout" ->
                    /\ OnDisconnectedStart(account_id, e, TRUE)
                    /\ UNCHANGED <<statusTimers, subscriptions>>
        /\ UNCHANGED <<eventQueues, drainers, started, notRoute>>

\* A listener that is never told of an event when the one before it in the
\* list has raised.
ListenerCalledAfterRaise(account_id, e, i, outcome) ==
    LET packet == packets[account_id][e]
    IN  /\ e \in 1..Len(packets[account_id])
        /\ packet.pc = "gathering"
        /\ i \in 1..Len(packet.calls)
        /\ packet.calls[i].state = "created"
        /\ packets' = [packets EXCEPT ![account_id][e].calls =
              [j \in 1..Len(packet.calls) |->
                  IF j = i THEN [packet.calls[j] EXCEPT !.state = outcome]
                  ELSE IF j > i /\ outcome = "raised"
                  THEN [packet.calls[j] EXCEPT !.state = "dropped"]
                  ELSE packet.calls[j]]]
        /\ UNCHANGED <<eventQueues, events, drainers, started, subscriptions, tasks,
                       connectedHosts, statusTimers, supervisor, notRoute>>

\* The task run_on_...(listener) of an event runs: the listener returns or
\* raises, and the except block of the task logs what it raised.
ListenerCalled(account_id, e, i, outcome) ==
    LET packet == packets[account_id][e]
    IN  /\ e \in 1..Len(packets[account_id])
        /\ packet.pc = "gathering"
        /\ i \in 1..Len(packet.calls)
        /\ packet.calls[i].state = "created"
        /\ packets' = [packets EXCEPT ![account_id][e].calls[i].state = outcome]
        /\ UNCHANGED <<eventQueues, events, drainers, started, subscriptions, tasks,
                       connectedHosts, statusTimers, supervisor, notRoute>>

\* asyncio.gather returns: every task of the event has ended.  An
\* on_disconnected then deletes the instance from _connectedHosts (lines
\* 1284-1285).
ProcessEnd(account_id, e) ==
    LET packet == packets[account_id][e]
    IN  /\ e \in 1..Len(packets[account_id])
        /\ packet.pc = "gathering"
        /\ \A i \in 1..Len(packet.calls) : packet.calls[i].state # "created"
        /\ packet.awaits # 0 =>
              ~(tasks[packet.awaits].kind = "on_disconnected"
                /\ tasks[packet.awaits].pc = "sleeping")
        /\ connectedHosts' = IF packet.type \in {"disconnected", "timeout"}
                             THEN connectedHosts \ {RouteKey(account_id, packet.host)}
                             ELSE connectedHosts
        /\ EventEnds(account_id, e, packet)
        /\ UNCHANGED <<eventQueues, drainers, started, subscriptions, tasks,
                       statusTimers, supervisor, notRoute>>

\* --------------------------------------------------------- specifications
\* ------------------------------------------- the filter of on_synchronization
\* self._unsubscribeThrottlingInterval (lines 75-77): the option
\* unsubscribeThrottlingIntervalInSeconds or its default, as it is given.
unsubscribeThrottlingInterval == 10

\* The test of line 1980 of _throttle_request(type, account_id, time_in_ms)
\* for the type 'unsubscribe': the clock counts seconds and the test compares
\* last_time with now - time_in_ms / 1000.
ThrottleElapsed(account_id, time_in_ms) ==
    \/ account_id \notin DOMAIN lastRequestsTime
    \/ 1000 * lastRequestsTime[account_id] < 1000 * now - time_in_ms

\* What _throttle_request returns (lines 1980-1983).
ThrottleRequest(account_id, time_in_ms) ==
    /\ ThrottleElapsed(account_id, time_in_ms)
    /\ account_id \in DOMAIN lastRequestsTime

\* A synchronization before its first packet, and the client before any.
NoSyncSent == [sent |-> <<>>, positionsUpdated |-> TRUE, ordersUpdated |-> TRUE]
NoSyncPacket == [type |-> "", pc |-> "none", chains |-> <<>>]

NoSynchronization ==
    /\ lastRequestsTime = <<>>
    /\ unsubscribeTasks = {}
    /\ synchronizationFlags = <<>>
    /\ syncSent = NoSyncSent
    /\ syncPacket = NoSyncPacket
    /\ syncCalls = [l \in Listeners |-> <<>>]

\* on_synchronization(data) (lines 298-331).  live tells whether the packet
\* has no synchronizationId or one of the active ones; active is what
\* is_subscription_active(data['accountId']) returns.  A packet that is not
\* live becomes a noop, which queue_packet filters out after the orderer.
OnSynchronization(account_id, type, host, session, hasSequenceNumber, live, active) ==
    IF ~live
    THEN UNCHANGED vars
    ELSE IF ~active /\ type # "disconnected"
    THEN /\ lastRequestsTime' =
               IF ThrottleElapsed(account_id, unsubscribeThrottlingInterval)
               THEN Put(lastRequestsTime, account_id, now)
               ELSE lastRequestsTime
         /\ unsubscribeTasks' =
               IF ThrottleRequest(account_id, unsubscribeThrottlingInterval)
               THEN unsubscribeTasks \cup {<<account_id, now>>}
               ELSE unsubscribeTasks
         /\ UNCHANGED <<smVars, poolVars, eqVars, closedInstances, calls, futures,
                        closer, subscribeLock, connectedHosts, unsubscribing, now,
                        syncVars>>
    ELSE ReceivePacket(account_id, type, host, session, hasSequenceNumber)

\* ------------------------------------------ the packets of a synchronization
\* The synchronization followed is that of the first account, with one
\* synchronizationId.
SyncAccount == AccountList[1]
SyncId == "s"

\* What the task of one listener calls for a packet when no call raises:
\* run_on_sync_started (lines 1321-1330), run_on_account_info (lines
\* 1341-1359), run_on_positions_replaced (lines 1433-1451) and
\* run_on_pending_orders_replaced (lines 1394-1405), for packets that carry
\* their accountInformation, positions and orders.
SyncChain(type) ==
    LET recorded == SyncId \in DOMAIN synchronizationFlags
        flags == synchronizationFlags[SyncId]
    IN  CASE type = "synchronizationStarted" -> <<"on_synchronization_started">>
          [] type = "accountInformation" ->
                <<"on_account_information_updated">>
                \o (IF recorded /\ ~flags.positionsUpdated
                    THEN <<"on_positions_synchronized">>
                         \o (IF ~flags.ordersUpdated
                             THEN <<"on_pending_orders_synchronized">> ELSE <<>>)
                    ELSE <<>>)
          [] type = "positions" ->
                <<"on_positions_replaced", "on_positions_synchronized">>
                \o (IF recorded /\ ~flags.ordersUpdated
                    THEN <<"on_pending_orders_synchronized">> ELSE <<>>)
          [] type = "orders" ->
                <<"on_pending_orders_replaced", "on_pending_orders_synchronized">>

\* _synchronizationFlags after the gather of a packet: lines 1367-1370,
\* 1410-1411 and 1459-1461.
FlagsAfterPacket(type) ==
    LET recorded == SyncId \in DOMAIN synchronizationFlags
        flags == synchronizationFlags[SyncId]
    IN  IF /\ recorded
           /\ \/ type = "orders"
              \/ type = "positions" /\ ~flags.ordersUpdated
              \/ type = "accountInformation" /\ ~flags.positionsUpdated
                                             /\ ~flags.ordersUpdated
        THEN Remove(synchronizationFlags, SyncId)
        ELSE synchronizationFlags

\* The packet the server sends next in a synchronization that obeys its
\* flags: synchronizationStarted, accountInformation, positions when
\* positionsUpdated, orders when ordersUpdated; "" when it has sent them all.
NextSyncPacket ==
    LET sent == syncSent.sent
        last == sent[Len(sent)]
        afterPositions == IF syncSent.ordersUpdated THEN "orders" ELSE ""
    IN  IF sent = <<>> THEN "synchronizationStarted"
        ELSE CASE last = "synchronizationStarted" -> "accountInformation"
               [] last = "accountInformation" ->
                     IF syncSent.positionsUpdated THEN "positions" ELSE afterPositions
               [] last = "positions" -> afterPositions
               [] last = "orders" -> ""

notSync == <<smVars, poolVars, eqVars, closedInstances, calls, futures, closer,
             subscribeLock, connectedHosts, unsubscribing, now, throttleVars>>

\* _process_synchronization_packet for the next packet of the
\* synchronization, from its first line to the await of gather (lines
\* 1314-1336, 1337-1366, 1393-1409, 1432-1458); the events of an account are
\* processed one after the other.  Without listeners no task is made and the
\* packet ends in the same step; the block of an accountInformation packet,
\* the deletion of lines 1367-1370 included, is entered only for an account
\* that has listeners.
SyncPacketStart(positionsUpdated, ordersUpdated) ==
    LET type == NextSyncPacket
        started_ == type = "synchronizationStarted"
        listeners == IF SyncAccount \in DOMAIN synchronizationListeners
                     THEN synchronizationListeners[SyncAccount] ELSE <<>>
        recordedFlags == IF started_
                         THEN Put(synchronizationFlags, SyncId,
                                  [accountId |-> SyncAccount,
                                   positionsUpdated |-> positionsUpdated,
                                   ordersUpdated |-> ordersUpdated])
                         ELSE synchronizationFlags
    IN  /\ syncPacket.pc = "none"
        /\ type # ""
        /\ started_ \/ (/\ positionsUpdated = syncSent.positionsUpdated
                        /\ ordersUpdated = syncSent.ordersUpdated)
        /\ syncSent' = [sent |-> Append(syncSent.sent, type),
                        positionsUpdated |-> positionsUpdated,
                        ordersUpdated |-> ordersUpdated]
        /\ IF listeners = <<>>
           THEN /\ synchronizationFlags' =
                      IF started_ THEN recordedFlags
                      ELSE IF type = "accountInformation" THEN synchronizationFlags
                      ELSE FlagsAfterPacket(type)
                /\ UNCHANGED syncPacket
           ELSE /\ synchronizationFlags' = recordedFlags
                /\ syncPacket' = [type |-> type, pc |-> "gathering",
                                  chains |-> [i \in 1..Len(listeners) |->
                                      [listener |-> listeners[i], state |-> "created"]]]
        /\ UNCHANGED <<syncCalls, notSync>>

\* The task of the i-th listener runs: it makes the first k calls of its
\* chain; the k-th returns, which takes the whole chain, or raises, which
\* ends the task in its except block.
SyncListenerTask(i, k, outcome) ==
    LET chain == SyncChain(syncPacket.type)
        listener == syncPacket.chains[i].listener
    IN  /\ syncPacket.pc = "gathering"
        /\ i \in 1..Len(syncPacket.chains)
        /\ syncPacket.chains[i].state = "created"
        /\ k \in 1..Len(chain)
        /\ outcome = "returned" => k = Len(chain)
        /\ syncCalls' = [syncCalls EXCEPT ![listener] =
              @ \o SubSeq(chain, 1, k)
                \o (IF outcome = "raised" THEN <<"raised">> ELSE <<>>)]
        /\ syncPacket' = [syncPacket EXCEPT !.chains[i].state = "done"]
        /\ UNCHANGED <<synchronizationFlags, syncSent, notSync>>

\* gather returns and the packet ends.
SyncPacketEnd ==
    /\ syncPacket.pc = "gathering"
    /\ \A i \in 1..Len(syncPacket.chains) : syncPacket.chains[i].state = "done"
    /\ synchronizationFlags' = FlagsAfterPacket(syncPacket.type)
    /\ syncPacket' = NoSyncPacket
    /\ UNCHANGED <<syncSent, syncCalls, notSync>>

\* The sockets and assignments the supervisor is started with: two sockets,
\* the first connected and the second not, the accounts spread over them.
SocketInstance(id, socketConnected) ==
    [NewInstance(id) EXCEPT !.socketConnected = socketConnected,
                            !.resolved = socketConnected]

InitSM ==
    /\ subscriptions = <<>>
    /\ awaitingResubscribe = {}
    /\ tasks = [t \in TaskIds |-> FreeTask]
    /\ lockTasks = {}
    /\ socketInstances = <<SocketInstance(0, TRUE), SocketInstance(1, FALSE)>>
    /\ socketInstancesByAccounts =
          [a \in Accounts |-> CHOOSE i \in {0, 1} : AccountList[i + 1] = a
                                                   \/ AccountList[i + 3] = a]
    /\ eventQueues = <<>>
    /\ events = [a \in Accounts |-> <<>>]
    /\ drainers = [d \in DrainerIds |-> NoDrainer]
    /\ started = [a \in Accounts |-> <<>>]
    /\ synchronizationListeners = <<>>
    /\ latencyListeners = <<>>
    /\ reconnectListeners = <<>>
    /\ statusTimers = <<>>
    /\ packets = [a \in Accounts |-> <<>>]
    /\ supervisor = <<>>
    /\ raised = ""
    /\ closedInstances = 0
    /\ calls = [c \in CallIds |-> NoCall]
    /\ futures = [f \in FutureIds |-> NoFuture]
    /\ closer = NoCloser
    /\ subscribeLock = NoLock
    /\ connectedHosts = {}
    /\ unsubscribing = {}
    /\ NoSynchronization
    /\ now = 0

NextSM ==
    \/ \E a \in Accounts, n \in InstanceNumbers : SubscribeCall(a, n)
    \/ \E t \in TaskIds : SubscribeStart(t)
    \/ \E t \in TaskIds : TaskStart(t)
    \/ \E t \in TaskIds : TaskOk(t)
    \/ \E t \in TaskIds, type \in LimitTypes : TaskTooManyRequests(t, type, now)
    \/ \E t \in TaskIds, late \in BOOLEAN :
          TaskTooManyRequests(t, RATE_PER_USER,
                              IF late THEN now + tasks[t].interval + 1 ELSE now)
    \/ \E t \in TaskIds : TaskOtherError(t)
    \/ \E t \in TaskIds : TaskSleepDone(t)
    \/ \E t \in TaskIds : LoopAfterTask(t)
    \/ \E t \in TaskIds : WaitTaskFire(t)
    \/ \E t \in TaskIds : LoopAfterFuture(t)
    \/ \E id \in InstanceIds : CancelSubscribe(id)
    \/ \E a \in Accounts : CancelAccount(a)
    \/ \E a \in Accounts, n \in InstanceNumbers : OnTimeout(a, n)
    \/ \E a \in Accounts, n \in InstanceNumbers : OnDisconnected(a, n)
    \/ \E t \in TaskIds : OnDisconnectedWake(t)
    \/ \E i \in {0, 1}, ids \in SUBSET Accounts : OnReconnected(i, ids)
    \/ \E t \in TaskIds : WaitResubscribeStep(t)

SpecSM == InitSM /\ [][NextSM]_vars

\* The event router with one account on a connected socket and two listeners
\* registered for it: the packets of two hosts of the account, a packet
\* without host, and packets that carry the sessionId of the socket or
\* another one.
InitRoute ==
    /\ subscriptions = <<>>
    /\ awaitingResubscribe = {}
    /\ tasks = [t \in TaskIds |-> FreeTask]
    /\ lockTasks = {}
    /\ socketInstances = <<SocketInstance(0, TRUE), SocketInstance(1, FALSE)>>
    /\ socketInstancesByAccounts =
          [a \in Accounts |-> CHOOSE i \in {0, 1} : AccountList[i + 1] = a
                                                   \/ AccountList[i + 3] = a]
    /\ eventQueues = <<>>
    /\ events = [a \in Accounts |-> <<>>]
    /\ drainers = [d \in DrainerIds |-> NoDrainer]
    /\ started = [a \in Accounts |-> <<>>]
    /\ synchronizationListeners = [a \in {AccountList[1]} |-> <<1, 2>>]
    /\ latencyListeners = <<>>
    /\ reconnectListeners = <<>>
    /\ statusTimers = <<>>
    /\ packets = [a \in Accounts |-> <<>>]
    /\ supervisor = <<>>
    /\ raised = ""
    /\ closedInstances = 0
    /\ calls = [c \in CallIds |-> NoCall]
    /\ futures = [f \in FutureIds |-> NoFuture]
    /\ closer = NoCloser
    /\ subscribeLock = NoLock
    /\ connectedHosts = {}
    /\ unsubscribing = {}
    /\ NoSynchronization
    /\ now = 0

\* The packets the specification receives: type, host, sessionId and
\* whether the packet carries a sequenceNumber.
RoutePackets ==
    {<<"authenticated", "h", "none", TRUE>>, <<"authenticated", "g", "none", TRUE>>,
     <<"authenticated", "h", "none", FALSE>>,
     <<"status", "h", "none", TRUE>>, <<"disconnected", "h", "none", TRUE>>,
     <<"disconnected", "h", "none", FALSE>>, <<"disconnected", "g", "none", TRUE>>}

RouteEventIds == 1..MaxRouteEvents

NextRoute ==
    \/ \E p \in RoutePackets : ReceivePacket(AccountList[1], p[1], p[2], p[3], p[4])
    \/ \E d \in DrainerIds : DrainStart(d)
    \/ \E d \in DrainerIds : DrainResume(d)
    \/ \E e \in RouteEventIds : EventTaskStart(AccountList[1], e)
    \/ \E e \in RouteEventIds : ProcessStart(AccountList[1], e)
    \/ \E e \in RouteEventIds, i \in 1..MaxRegistered, outcome \in {"returned", "raised"} :
          ListenerCalled(AccountList[1], e, i, outcome)
    \/ \E e \in RouteEventIds : ProcessEnd(AccountList[1], e)
    \/ \E host \in Hosts \cup {""} : WatchdogFires(AccountList[1], host)
    \/ \E t \in TaskIds : OnDisconnectedWake(t)

SpecRoute == InitRoute /\ [][NextRoute]_vars

\* Authenticated packets of one host that carry no sessionId, the sessionId
\* the socket of the account has when they arrive, or another one, an
\* authenticated packet that names no host, and the disconnected packet of
\* the host.
SessionPackets ==
    {<<"authenticated", "h", "none">>, <<"authenticated", "h", "current">>,
     <<"authenticated", "h", "other">>, <<"authenticated", "", "none">>,
     <<"disconnected", "h", "none">>}

\* The packets are processed while the socket of the account drops and
\* reconnects.
NextSession ==
    \/ \E p \in SessionPackets : ReceivePacket(AccountList[1], p[1], p[2], p[3], TRUE)
    \/ \E d \in DrainerIds : DrainStart(d)
    \/ \E d \in DrainerIds : DrainResume(d)
    \/ \E e \in RouteEventIds : ProcessStart(AccountList[1], e)
    \/ \E e \in RouteEventIds, i \in 1..MaxRegistered :
          ListenerCalled(AccountList[1], e, i, "returned")
    \/ \E e \in RouteEventIds : ProcessEnd(AccountList[1], e)
    \/ \E t \in TaskIds : OnDisconnectedWake(t)
    \/ \E s \in 1..MaxSockets : SocketDisconnected(s)
    \/ \E s \in 1..MaxSockets : ReconnectDisconnected(s)
    \/ \E s \in 1..MaxSockets : ReconnectFailed(s)
    \/ \E s \in 1..MaxSockets : ReconnectConnected(s, {})

SpecSession == InitRoute /\ [][NextSession]_vars

\* The calls of the registry of listeners, for two listeners and one account
\* (removals also for an account that never had a listener), while
\* authenticated packets of the account are processed.
NextListeners ==
    \/ \E l \in Listeners : AddSynchronizationListener(AccountList[1], l)
    \/ \E a \in {AccountList[1], AccountList[2]}, l \in Listeners :
          RemoveSynchronizationListener(a, l)
    \/ \E l \in Listeners : AddLatencyListener(l)
    \/ \E l \in Listeners : RemoveLatencyListener(l)
    \/ \E l \in Listeners : AddReconnectListener(l, AccountList[1])
    \/ \E l \in Listeners : RemoveReconnectListener(l)
    \/ RemoveAllListeners
    \/ ReceivePacket(AccountList[1], "authenticated", "h", "none", TRUE)
    \/ \E d \in DrainerIds : DrainStart(d)
    \/ \E d \in DrainerIds : DrainResume(d)
    \/ \E e \in RouteEventIds : ProcessStart(AccountList[1], e)
    \/ \E e \in RouteEventIds, i \in 1..MaxRegistered :
          ListenerCalled(AccountList[1], e, i, "returned")
    \/ \E e \in RouteEventIds : ProcessEnd(AccountList[1], e)

SpecListeners == InitSM /\ [][NextListeners]_vars

\* The packets of the server of the integration test, each with a
\* sequenceNumber: they go through the queue of the account.
WatchPackets ==
    {<<"authenticated", "h", "none">>, <<"authenticated", "g", "none">>,
     <<"status", "h", "none">>, <<"disconnected", "h", "none">>}

NextWatch ==
    \/ \E p \in WatchPackets : ReceivePacket(AccountList[1], p[1], p[2], p[3], TRUE)
    \/ \E d \in DrainerIds : DrainStart(d)
    \/ \E d \in DrainerIds : DrainResume(d)
    \/ \E e \in RouteEventIds : ProcessStart(AccountList[1], e)
    \/ \E e \in RouteEventIds, i \in 1..MaxRegistered, outcome \in {"returned", "raised"} :
          ListenerCalled(AccountList[1], e, i, outcome)
    \/ \E e \in RouteEventIds : ProcessEnd(AccountList[1], e)
    \/ \E host \in Hosts : WatchdogFires(AccountList[1], host)
    \/ \E t \in TaskIds : OnDisconnectedWake(t)

SpecWatch == InitRoute /\ [][NextWatch]_vars

\* The event loop runs every task that can run: the drain tasks, the
\* coroutines of the events, the tasks of the listeners and the supervisor's
\* tasks.  The watchdog fires when nothing has been heard for 60 seconds,
\* which no scheduling forces.
FairWatch ==
    /\ SpecWatch
    /\ \A d \in DrainerIds : WF_vars(DrainStart(d)) /\ WF_vars(DrainResume(d))
    /\ \A e \in RouteEventIds :
          /\ WF_vars(ProcessStart(AccountList[1], e))
          /\ WF_vars(ProcessEnd(AccountList[1], e))
          /\ \A i \in 1..MaxRegistered :
                WF_vars(\E outcome \in {"returned", "raised"} :
                            ListenerCalled(AccountList[1], e, i, outcome))
    /\ \A t \in TaskIds : WF_vars(OnDisconnectedWake(t))

\* The packets of the first account come in, for a subscription that is
\* active or not, and those of the second account, whose subscription is
\* not active, while the clock runs.
NextFilter ==
    \/ \E type \in {"status", "disconnected"}, live \in BOOLEAN, active \in BOOLEAN :
          OnSynchronization(AccountList[1], type, "h", "none", TRUE, live, active)
    \/ \E type \in {"status", "disconnected"} :
          OnSynchronization(AccountList[2], type, "h", "none", TRUE, TRUE, FALSE)
    \/ Tick

SpecFilter == InitSM /\ [][NextFilter]_vars

\* One synchronization of the first account, with the listeners that were
\* registered for the account before it began, each of them once.
NextSync ==
    \/ \E l \in Listeners :
          /\ syncSent.sent = <<>>
          /\ SyncAccount \in DOMAIN synchronizationListeners =>
                \A i \in 1..Len(synchronizationListeners[SyncAccount]) :
                    synchronizationListeners[SyncAccount][i] # l
          /\ AddSynchronizationListener(SyncAccount, l)
    \/ \E positionsUpdated \in BOOLEAN, ordersUpdated \in BOOLEAN :
          SyncPacketStart(positionsUpdated, ordersUpdated)
    \/ \E i \in 1..MaxRegistered, k \in 1..3, outcome \in {"returned", "raised"} :
          SyncListenerTask(i, k, outcome)
    \/ SyncPacketEnd

SpecSync == InitSM /\ [][NextSync]_vars

\* The supervisor loop of the first account runs while authenticated packets
\* of the account are processed, before and after a synchronization
\* listener is registered for it.
NextAuth ==
    \/ SubscribeCall(AccountList[1], 0)
    \/ \E t \in TaskIds : SubscribeStart(t)
    \/ \E t \in TaskIds : TaskStart(t)
    \/ \E t \in TaskIds : TaskOtherError(t)
    \/ \E t \in TaskIds : LoopAfterTask(t)
    \/ \E t \in TaskIds : WaitTaskFire(t)
    \/ \E t \in TaskIds : LoopAfterFuture(t)
    \/ AddSynchronizationListener(AccountList[1], 1)
    \/ ReceivePacket(AccountList[1], "authenticated", "h", "none", TRUE)
    \/ \E d \in DrainerIds : DrainStart(d)
    \/ \E d \in DrainerIds : DrainResume(d)
    \/ \E e \in RouteEventIds : ProcessStart(AccountList[1], e)
    \/ \E e \in RouteEventIds, i \in 1..MaxRegistered :
          ListenerCalled(AccountList[1], e, i, "returned")
    \/ \E e \in RouteEventIds : ProcessEnd(AccountList[1], e)

SpecAuth == InitSM /\ [][NextAuth]_vars

\* The supervisor with subscribe and the callers of cancel_subscribe.
NextCancel ==
    \/ \E a \in Accounts, n \in InstanceNumbers : SubscribeCall(a, n)
    \/ \E t \in TaskIds : SubscribeStart(t)
    \/ \E t \in TaskIds : TaskStart(t)
    \/ \E t \in TaskIds : TaskOk(t)
    \/ \E t \in TaskIds, late \in BOOLEAN :
          TaskTooManyRequests(t, RATE_PER_USER,
                              IF late THEN now + tasks[t].interval + 1 ELSE now)
    \/ \E t \in TaskIds : TaskOtherError(t)
    \/ \E t \in TaskIds : TaskSleepDone(t)
    \/ \E t \in TaskIds : LoopAfterTask(t)
    \/ \E t \in TaskIds : WaitTaskFire(t)
    \/ \E t \in TaskIds : LoopAfterFuture(t)
    \/ \E id \in InstanceIds : CancelSubscribe(id)
    \/ \E a \in Accounts : CancelAccount(a)
    \/ \E i \in {0, 1} : OnReconnected(i, {})

SpecCancel == InitSM /\ [][NextCancel]_vars

\* The event loop runs every coroutine that is ready: a subscribe() whose
\* awaited task or future has ended is resumed.
FairCancel ==
    /\ SpecCancel
    /\ \A t \in TaskIds : WF_vars(LoopAfterTask(t)) /\ WF_vars(LoopAfterFuture(t))

\* One instance subscribed, cancelled and subscribed again, with enough
\* attempts for the backoff of a loop to reach its limit.
NextBackoff ==
    \/ SubscribeCall(AccountList[1], 0)
    \/ \E t \in TaskIds : SubscribeStart(t)
    \/ \E t \in TaskIds : TaskStart(t)
    \/ \E t \in TaskIds : TaskOk(t)
    \/ \E t \in TaskIds : TaskOtherError(t)
    \/ \E t \in TaskIds : LoopAfterTask(t)
    \/ \E t \in TaskIds : WaitTaskFires(t, BackoffAttempts)
    \/ \E t \in TaskIds : LoopAfterFuture(t)
    \/ CancelSubscribe(InstanceId(AccountList[1], 0))

SpecBackoff == InitSM /\ [][NextBackoff]_vars

\* The supervisor with the errors of the subscribe request that carry a
\* recommendedRetryTime, and the lock tasks they create: two connected
\* sockets, the two accounts on the second one, the first account being
\* subscribed.
InitLimit ==
    /\ subscriptions = <<>>
    /\ awaitingResubscribe = {}
    /\ tasks = [t \in TaskIds |-> FreeTask]
    /\ lockTasks = {}
    /\ socketInstances = <<SocketInstance(0, TRUE), SocketInstance(1, TRUE)>>
    /\ socketInstancesByAccounts = [a \in Accounts |-> 1]
    /\ eventQueues = <<>>
    /\ events = [a \in Accounts |-> <<>>]
    /\ drainers = [d \in DrainerIds |-> NoDrainer]
    /\ started = [a \in Accounts |-> <<>>]
    /\ synchronizationListeners = <<>>
    /\ latencyListeners = <<>>
    /\ reconnectListeners = <<>>
    /\ statusTimers = <<>>
    /\ packets = [a \in Accounts |-> <<>>]
    /\ supervisor = <<>>
    /\ raised = ""
    /\ closedInstances = 0
    /\ calls = [c \in CallIds |-> NoCall]
    /\ futures = [f \in FutureIds |-> NoFuture]
    /\ closer = NoCloser
    /\ subscribeLock = NoLock
    /\ connectedHosts = {}
    /\ unsubscribing = {}
    /\ NoSynchronization
    /\ now = 0

\* The recommendedRetryTime of an error: now, or one second later than the
\* end of the backoff of the loop.
RetryTimes(t) == {now, now + tasks[t].interval + 1}

NextLimit ==
    \/ \E n \in InstanceNumbers : SubscribeCall(AccountList[1], n)
    \/ \E t \in TaskIds : SubscribeStart(t)
    \/ \E t \in TaskIds : TaskStart(t)
    \/ \E t \in TaskIds, type \in TooManyRequestsTypes :
          \E recommendedRetryTime \in RetryTimes(t) :
              TaskTooManyRequests(t, type, recommendedRetryTime)
    \/ \E t \in TaskIds : TaskSleepDone(t)
    \/ \E t \in TaskIds : LoopAfterTask(t)
    \/ \E t \in TaskIds : WaitTaskFire(t)
    \/ \E t \in TaskIds : LoopAfterFuture(t)
    \/ \E l \in lockTasks : LockSocketInstance(l)
    \/ \E a \in Accounts : AuthenticatedPacket(a, 0, FALSE, FALSE, FALSE)
    \/ \E s \in 1..Len(socketInstances) : ReconnectDisconnected(s)
    \/ \E s \in 1..Len(socketInstances) : ReconnectFailed(s)
    \/ \E s \in 1..Len(socketInstances) : ReconnectConnected(s, {})
    \/ Tick

SpecLimit == InitLimit /\ [][NextLimit]_vars

\* The accounts the reconnect listeners of socket_instance_index hand to
\* on_reconnected: _fire_reconnected (lines 1897-1924) takes the accounts
\* assigned to the socket.
ReconnectAccountIds(socket_instance_index) ==
    SUBSET {a \in Accounts : /\ a \in DOMAIN socketInstancesByAccounts
                             /\ socketInstancesByAccounts[a] = socket_instance_index}

\* The supervisor with subscribe, cancel_account and the reconnects of the
\* sockets.
NextReconnect ==
    \/ \E a \in Accounts, n \in InstanceNumbers : SubscribeCall(a, n)
    \/ \E t \in TaskIds : SubscribeStart(t)
    \/ \E t \in TaskIds : TaskStart(t)
    \/ \E t \in TaskIds : TaskOk(t)
    \/ \E t \in TaskIds : TaskOtherError(t)
    \/ \E t \in TaskIds : LoopAfterTask(t)
    \/ \E t \in TaskIds : WaitTaskFire(t)
    \/ \E t \in TaskIds : LoopAfterFuture(t)
    \/ \E a \in Accounts : CancelAccount(a)
    \/ \E i \in {0, 1} : \E ids \in ReconnectAccountIds(i) : OnReconnected(i, ids)
    \/ \E t \in TaskIds : WaitResubscribeStep(t)

SpecReconnect == InitSM /\ [][NextReconnect]_vars

\* The event loop runs every coroutine that is ready: subscribe() at its
\* start and after its awaits, and wait_resubscribe at its start and after
\* each sleep(1).
FairReconnect ==
    /\ SpecReconnect
    /\ \A t \in TaskIds :
          /\ WF_vars(SubscribeStart(t))
          /\ WF_vars(LoopAfterTask(t))
          /\ WF_vars(LoopAfterFuture(t))
          /\ WF_vars(WaitResubscribeStep(t))

\* The supervisor started by on_timeout alone, with the limit errors that
\* take the socket of an account away and a socket that drops and comes
\* back.
NextTimeout ==
    \/ \E a \in Accounts, n \in InstanceNumbers : OnTimeout(a, n)
    \/ \E t \in TaskIds : SubscribeStart(t)
    \/ \E t \in TaskIds : TaskStart(t)
    \/ \E t \in TaskIds : TaskOk(t)
    \/ \E t \in TaskIds, type \in LimitTypes : TaskTooManyRequests(t, type, now)
    \/ \E t \in TaskIds : LoopAfterTask(t)
    \/ \E t \in TaskIds : WaitTaskFire(t)
    \/ \E t \in TaskIds : LoopAfterFuture(t)
    \/ \E id \in InstanceIds : CancelSubscribe(id)
    \/ \E s \in 1..Len(socketInstances) : SocketDisconnected(s)
    \/ \E s \in 1..Len(socketInstances) : ReconnectDisconnected(s)
    \/ \E s \in 1..Len(socketInstances) : ReconnectConnected(s, {})

SpecTimeout == InitSM /\ [][NextTimeout]_vars

\* The supervisor is idle and no event has arrived.
InitEQ ==
    /\ subscriptions = <<>>
    /\ awaitingResubscribe = {}
    /\ tasks = [t \in TaskIds |-> FreeTask]
    /\ lockTasks = {}
    /\ socketInstances = <<>>
    /\ socketInstancesByAccounts = <<>>
    /\ eventQueues = <<>>
    /\ events = [a \in Accounts |-> <<>>]
    /\ drainers = [d \in DrainerIds |-> NoDrainer]
    /\ started = [a \in Accounts |-> <<>>]
    /\ synchronizationListeners = <<>>
    /\ latencyListeners = <<>>
    /\ reconnectListeners = <<>>
    /\ statusTimers = <<>>
    /\ packets = [a \in Accounts |-> <<>>]
    /\ supervisor = <<>>
    /\ raised = ""
    /\ closedInstances = 0
    /\ calls = [c \in CallIds |-> NoCall]
    /\ futures = [f \in FutureIds |-> NoFuture]
    /\ closer = NoCloser
    /\ subscribeLock = NoLock
    /\ connectedHosts = {}
    /\ unsubscribing = {}
    /\ NoSynchronization
    /\ now = 0

NextEQ ==
    \/ \E a \in Accounts, k \in 0..MaxPackets, sn \in BOOLEAN : QueuePacket(a, k, sn)
    \/ \E a \in Accounts : QueueEvent(a)
    \/ \E d \in DrainerIds : DrainStart(d)
    \/ \E a \in Accounts, e \in 1..MaxEvents : EventDone(a, e)
    \/ \E a \in Accounts, e \in 1..MaxEvents : EventTaskStart(a, e)
    \/ \E d \in DrainerIds : DrainResume(d)

SpecEQ == InitEQ /\ [][NextEQ]_vars

\* The event loop runs every task that is ready, and an event coroutine
\* that is executed comes to its end.
FairEQ ==
    /\ SpecEQ
    /\ \A d \in DrainerIds : WF_vars(DrainStart(d)) /\ WF_vars(DrainResume(d))
    /\ \A a \in Accounts, e \in 1..MaxEvents : WF_vars(EventDone(a, e))

\* rpc_request on a pool of two sockets with one account each; the second
\* socket is inside _reconnect, waiting for its connect (line 1016).
Reconnecting(id) ==
    [NewInstance(id) EXCEPT !.isReconnecting = TRUE, !.reconnect = "connecting"]

RpcRetryTimes == {0, 1, CalcRequestTime(0) + 1}

InitRPC ==
    /\ subscriptions = <<>>
    /\ awaitingResubscribe = {}
    /\ tasks = [t \in TaskIds |-> FreeTask]
    /\ lockTasks = {}
    /\ socketInstances = <<SocketInstance(0, TRUE), Reconnecting(1)>>
    /\ socketInstancesByAccounts =
          [a \in Accounts |-> CHOOSE i \in {0, 1} : AccountList[i + 1] = a
                                                   \/ AccountList[i + 3] = a]
    /\ eventQueues = <<>>
    /\ events = [a \in Accounts |-> <<>>]
    /\ drainers = [d \in DrainerIds |-> NoDrainer]
    /\ started = [a \in Accounts |-> <<>>]
    /\ synchronizationListeners = <<>>
    /\ latencyListeners = <<>>
    /\ reconnectListeners = <<>>
    /\ statusTimers = <<>>
    /\ packets = [a \in Accounts |-> <<>>]
    /\ supervisor = <<>>
    /\ raised = ""
    /\ closedInstances = 0
    /\ calls = [c \in CallIds |-> NoCall]
    /\ futures = [f \in FutureIds |-> NoFuture]
    /\ closer = NoCloser
    /\ subscribeLock = NoLock
    /\ connectedHosts = {}
    /\ unsubscribing = {}
    /\ NoSynchronization
    /\ now = 0

NextRPC ==
    \/ \E c \in RpcCallIds, a \in Accounts, type \in RequestTypes,
          request_id \in {0} \cup RequestIds : RpcRequest(c, a, type, request_id)
    \/ \E c \in CallIds : RpcConnectResolved(c)
    \/ \E c \in CallIds : RpcConnectTimeout(c)
    \/ \E c \in CallIds : EmitDone(c)
    \/ \E c \in CallIds : EmitFails(c)
    \/ \E c \in CallIds : RpcResume(c)
    \/ \E c \in CallIds : RpcTimeout(c)
    \/ \E c \in CallIds : BackoffDone(c)
    \/ \E s \in 1..MaxSockets, request_id \in AllRequestIds : OnResponse(s, request_id)
    \/ \E s \in 1..MaxSockets, request_id \in AllRequestIds,
          error \in ErrorFrames \ {"TooManyRequestsError"} :
          OnProcessingError(s, request_id, error, 0)
    \/ \E s \in 1..MaxSockets, request_id \in AllRequestIds,
          recommendedRetryTime \in RpcRetryTimes :
          OnProcessingError(s, request_id, "TooManyRequestsError", recommendedRetryTime)
    \/ \E s \in 1..MaxSockets : SocketConnectError(s)
    \/ \E s \in 1..MaxSockets : ReconnectConnected(s, {})
    \/ \E a \in Accounts : UnsubscribeCall(a)
    \/ \E a \in Accounts, outcome \in UnsubscribeOutcomes : UnsubscribeResume(a, outcome)

SpecRPC == InitRPC /\ [][NextRPC]_vars

\* The multiplexing of requests and frames over the sockets, with close():
\* two sockets with one account each, calls of the two single-attempt types.
MuxErrors == {"ValidationError", "UnauthorizedError"}

InitMux ==
    /\ subscriptions = <<>>
    /\ awaitingResubscribe = {}
    /\ tasks = [t \in TaskIds |-> FreeTask]
    /\ lockTasks = {}
    /\ socketInstances = <<SocketInstance(0, TRUE), SocketInstance(1, TRUE)>>
    /\ socketInstancesByAccounts =
          [a \in Accounts |-> CHOOSE i \in {0, 1} : AccountList[i + 1] = a
                                                   \/ AccountList[i + 3] = a]
    /\ eventQueues = <<>>
    /\ events = [a \in Accounts |-> <<>>]
    /\ drainers = [d \in DrainerIds |-> NoDrainer]
    /\ started = [a \in Accounts |-> <<>>]
    /\ synchronizationListeners = <<>>
    /\ latencyListeners = <<>>
    /\ reconnectListeners = <<>>
    /\ statusTimers = <<>>
    /\ packets = [a \in Accounts |-> <<>>]
    /\ supervisor = <<>>
    /\ raised = ""
    /\ closedInstances = 0
    /\ calls = [c \in CallIds |-> NoCall]
    /\ futures = [f \in FutureIds |-> NoFuture]
    /\ closer = NoCloser
    /\ subscribeLock = NoLock
    /\ connectedHosts = {}
    /\ unsubscribing = {}
    /\ NoSynchronization
    /\ now = 0

MuxCallIds == 1..MaxMuxCalls

NextMux ==
    \/ \E c \in MuxCallIds, a \in Accounts, type \in SingleAttemptTypes,
          request_id \in {0} \cup RequestIds : RpcRequest(c, a, type, request_id)
    \/ \E c \in CallIds : RpcConnectReturn(c)
    \/ \E c \in CallIds : RpcConnectResolved(c)
    \/ \E c \in CallIds : RpcConnectTimeout(c)
    \/ \E c \in CallIds : EmitDone(c)
    \/ \E c \in CallIds : EmitFails(c)
    \/ \E c \in CallIds : RpcResume(c)
    \/ \E c \in CallIds : RpcTimeout(c)
    \/ \E s \in 1..MaxSockets, request_id \in AllRequestIds : OnResponse(s, request_id)
    \/ \E s \in 1..MaxSockets, request_id \in AllRequestIds, error \in MuxErrors :
          OnProcessingError(s, request_id, error, 0)
    \/ \E s \in 1..MaxSockets : SocketConnect(s)
    \/ \E s \in 1..MaxSockets : SocketConnectError(s)
    \/ CloseCall
    \/ CloseResume

SpecMux == InitMux /\ [][NextMux]_vars

\* Subscribe requests on two connected sockets whose tasks are cancelled
\* while they wait, with the responses, the errors and the timeouts.
NextCancelCall ==
    \/ \E c \in CallIds, a \in Accounts : RpcRequest(c, a, "subscribe", 0)
    \/ \E c \in CallIds : EmitDone(c)
    \/ \E c \in CallIds : RpcResume(c)
    \/ \E c \in CallIds : RpcTimeout(c)
    \/ \E c \in CallIds : RpcCancelled(c)
    \/ \E s \in 1..MaxSockets, request_id \in AllRequestIds : OnResponse(s, request_id)
    \/ \E s \in 1..MaxSockets, request_id \in AllRequestIds :
          OnProcessingError(s, request_id, "NotFoundError", 0)

SpecCancelCall == InitMux /\ [][NextCancelCall]_vars

\* Two connected sockets with an account on each, trade requests, the loss
\* and the recovery of connections, and close().
NextClose ==
    \/ \E c \in MuxCallIds, a \in Accounts : RpcRequest(c, a, "trade", 0)
    \/ \E c \in CallIds : RpcConnectResolved(c)
    \/ \E c \in CallIds : EmitDone(c)
    \/ \E c \in CallIds : EmitFails(c)
    \/ \E c \in CallIds : RpcResume(c)
    \/ \E s \in 1..MaxSockets, request_id \in AllRequestIds : OnResponse(s, request_id)
    \/ \E s \in 1..MaxSockets : SocketDisconnected(s)
    \/ \E s \in 1..MaxSockets : ReconnectDisconnected(s)
    \/ \E s \in 1..MaxSockets : ReconnectFailed(s)
    \/ \E s \in 1..MaxSockets : ReconnectConnected(s, {})
    \/ CloseCall
    \/ CloseResume

SpecClose == InitMux /\ [][NextClose]_vars

\* The steps that the event loop takes by itself once they are enabled: a
\* coroutine whose await is over is resumed.  The calls of rpc_request and
\* close, the frames of the server and the timeouts are not among them.
MuxResumes ==
    \/ \E c \in CallIds : RpcConnectReturn(c)
    \/ \E c \in CallIds : RpcConnectResolved(c)
    \/ \E c \in CallIds : EmitDone(c)
    \/ \E c \in CallIds : RpcResume(c)
    \/ CloseResume

FairMux == SpecMux /\ WF_vars(MuxResumes)

\* The client after construction (lines 59-98): no socket, no assignment, no
\* lock.
InitPool ==
    /\ subscriptions = <<>>
    /\ awaitingResubscribe = {}
    /\ tasks = [t \in TaskIds |-> FreeTask]
    /\ lockTasks = {}
    /\ socketInstances = <<>>
    /\ socketInstancesByAccounts = <<>>
    /\ eventQueues = <<>>
    /\ events = [a \in Accounts |-> <<>>]
    /\ drainers = [d \in DrainerIds |-> NoDrainer]
    /\ started = [a \in Accounts |-> <<>>]
    /\ synchronizationListeners = <<>>
    /\ latencyListeners = <<>>
    /\ reconnectListeners = <<>>
    /\ statusTimers = <<>>
    /\ packets = [a \in Accounts |-> <<>>]
    /\ supervisor = <<>>
    /\ raised = ""
    /\ closedInstances = 0
    /\ calls = [c \in CallIds |-> NoCall]
    /\ futures = [f \in FutureIds |-> NoFuture]
    /\ closer = NoCloser
    /\ subscribeLock = NoLock
    /\ connectedHosts = {}
    /\ unsubscribing = {}
    /\ NoSynchronization
    /\ now = 0

\* Call c is rpc_request(AccountList[c], {'type': 'subscribe'}).
PoolCallIds == 1..MaxPoolCalls

NextPool ==
    \/ \E c \in PoolCallIds : RpcRequest(c, AccountList[c], "subscribe", 0)
    \/ \E c \in CallIds : RpcConnectReturn(c)
    \/ \E c \in CallIds : RpcConnectResolved(c)
    \/ \E c \in CallIds : RpcConnectTimeout(c)
    \/ \E s \in 1..MaxSockets : SocketConnect(s)
    \/ \E s \in 1..MaxSockets : SocketConnectError(s)
    \/ \E s \in 1..MaxSockets : SocketDisconnected(s)
    \/ \E s \in 1..MaxSockets : ReconnectDisconnected(s)
    \/ \E s \in 1..MaxSockets : ReconnectFailed(s)
    \/ \E s \in 1..MaxSockets : ReconnectConnected(s, {})
    \/ \E a \in PoolAccounts, type \in LimitTypes : SubscribeTaskLimit(a, type, now + 1)
    \/ \E l \in lockTasks : LockSocketInstance(l)
    \/ \E a \in PoolAccounts : UnsubscribeCall(a)
    \/ \E a \in PoolAccounts, outcome \in UnsubscribeOutcomes : UnsubscribeResume(a, outcome)
    \/ CloseCall
    \/ CloseResume

SpecPool == InitPool /\ [][NextPool]_vars

\* Three calls with the clock, the authenticated packets and the limit
\* error that sets the lock of the client.
NextGate ==
    \/ \E c \in CallIds : RpcRequest(c, AccountList[c], "subscribe", 0)
    \/ \E c \in CallIds : RpcLockPoll(c)
    \/ \E c \in CallIds : RpcConnectReturn(c)
    \/ \E c \in CallIds : RpcConnectResolved(c)
    \/ \E s \in 1..MaxSockets : SocketConnect(s)
    \/ \E a \in PoolAccounts : SubscribeTaskLimit(a, PER_USER, now + 1)
    \/ \E l \in lockTasks : LockSocketInstance(l)
    \/ \E a \in PoolAccounts : AuthenticatedPacket(a, 0, FALSE, FALSE, FALSE)
    \/ Tick

SpecGate == InitPool /\ [][NextGate]_vars

\* A client with one connected socket that carries the first two accounts,
\* none of them authenticated yet.
InitScan ==
    /\ subscriptions = <<>>
    /\ awaitingResubscribe = {}
    /\ tasks = [t \in TaskIds |-> FreeTask]
    /\ lockTasks = {}
    /\ socketInstances = <<SocketInstance(0, TRUE)>>
    /\ socketInstancesByAccounts = [a \in {AccountList[1], AccountList[2]} |-> 0]
    /\ eventQueues = <<>>
    /\ events = [a \in Accounts |-> <<>>]
    /\ drainers = [d \in DrainerIds |-> NoDrainer]
    /\ started = [a \in Accounts |-> <<>>]
    /\ synchronizationListeners = <<>>
    /\ latencyListeners = <<>>
    /\ reconnectListeners = <<>>
    /\ statusTimers = <<>>
    /\ packets = [a \in Accounts |-> <<>>]
    /\ supervisor = <<>>
    /\ raised = ""
    /\ closedInstances = 0
    /\ calls = [c \in CallIds |-> NoCall]
    /\ futures = [f \in FutureIds |-> NoFuture]
    /\ closer = NoCloser
    /\ subscribeLock = NoLock
    /\ connectedHosts = {}
    /\ unsubscribing = {}
    /\ NoSynchronization
    /\ now = 0

\* Call c is rpc_request(ScanAccount(c), {'type': 'subscribe'}): the first
\* account, which comes back after a limit error, and accounts that are not
\* on the first socket.
ScanAccount(c) == AccountList[Min(2 * c - 1, Len(AccountList))]

\* The types of the lock of a socket.
SocketLockTypes == {PER_SERVER, PER_USER_PER_SERVER}

\* A client that starts without sockets: two calls for the first account and
\* one for the second, sockets whose connect succeeds, fails or never ends,
\* and a connected socket that drops.
NextConnectWait ==
    \/ \E c \in CallIds : RpcRequest(c, AccountList[(c + 1) \div 2], "subscribe", 0)
    \/ \E c \in CallIds : RpcConnectReturn(c)
    \/ \E c \in CallIds : RpcConnectResolved(c)
    \/ \E c \in CallIds : RpcConnectTimeout(c)
    \/ \E c \in CallIds : EmitDone(c)
    \/ \E c \in CallIds : EmitFails(c)
    \/ \E s \in 1..MaxSockets : SocketConnect(s)
    \/ \E s \in 1..MaxSockets : SocketConnectError(s)
    \/ \E s \in 1..MaxSockets : SocketDisconnected(s)
    \/ \E s \in 1..MaxSockets : ReconnectDisconnected(s)
    \/ \E s \in 1..MaxSockets : ReconnectFailed(s)
    \/ \E s \in 1..MaxSockets : ReconnectConnected(s, {})

SpecConnectWait == InitPool /\ [][NextConnectWait]_vars

\* connect() sees a socket that connects again and again; the loop of lines
\* 1071-1072 ends when the instance is resolved or connect_timeout has
\* passed, whichever the call finds when it wakes.  Nothing makes the server
\* accept a connection.
FairConnectWait ==
    /\ SpecConnectWait
    /\ \A c \in CallIds : /\ SF_vars(RpcConnectReturn(c))
                          /\ WF_vars(RpcConnectResolved(c) \/ RpcConnectTimeout(c))

\* Calls for the first account, which has its socket, and for an account
\* that has none, while limit errors set the lock of the client and the
\* locks of the socket.
NextAssigned ==
    \/ \E c \in PoolCallIds : RpcRequest(c, ScanAccount(c), "subscribe", 0)
    \/ \E c \in CallIds : RpcLockPoll(c)
    \/ \E c \in CallIds : RpcConnectReturn(c)
    \/ \E c \in CallIds : RpcConnectResolved(c)
    \/ \E s \in 1..MaxSockets : SocketConnect(s)
    \/ \E a \in Accounts, type \in LimitTypes : SubscribeTaskLimit(a, type, now + 1)
    \/ \E l \in lockTasks : LockSocketInstance(l)
    \/ \E a \in Accounts : AuthenticatedPacket(a, 0, FALSE, FALSE, FALSE)
    \/ Tick

SpecAssigned == InitScan /\ [][NextAssigned]_vars

\* One socket with two accounts: it drops its connection, reports errors and
\* loses its accounts to subscription limits, whose lock tasks call
\* _reconnect for a socket without accounts, while _reconnect runs and
\* packets with the sessionId of the socket arrive.
NextOneReconnect ==
    \/ \E s \in 1..MaxSockets : SocketDisconnected(s)
    \/ \E s \in 1..MaxSockets : SocketError(s)
    \/ \E a \in Accounts, type \in SocketLockTypes : SubscribeTaskLimit(a, type, now + 1)
    \/ \E l \in lockTasks : LockSocketInstance(l)
    \/ \E s \in 1..MaxSockets : ReconnectDisconnected(s)
    \/ \E s \in 1..MaxSockets : ReconnectFailed(s)
    \/ \E s \in 1..MaxSockets : ReconnectConnected(s, {})
    \/ ReceivePacket(AccountList[1], "authenticated", "h", "current", TRUE)

SpecOneReconnect == InitScan /\ [][NextOneReconnect]_vars

\* The scan of rpc_request with the locks of the sockets, the authenticated
\* packets and the clock.
NextScan ==
    \/ \E c \in PoolCallIds : RpcRequest(c, ScanAccount(c), "subscribe", 0)
    \/ \E c \in CallIds : RpcConnectReturn(c)
    \/ \E c \in CallIds : RpcConnectResolved(c)
    \/ \E s \in 1..MaxSockets : SocketConnect(s)
    \/ \E a \in Accounts, type \in SocketLockTypes : SubscribeTaskLimit(a, type, now + 1)
    \/ \E l \in lockTasks : LockSocketInstance(l)
    \/ \E s \in 1..MaxSockets : ReconnectDisconnected(s)
    \/ \E s \in 1..MaxSockets : ReconnectConnected(s, {})
    \/ \E a \in Accounts : AuthenticatedPacket(a, 0, FALSE, FALSE, FALSE)
    \/ Tick

SpecScan == InitScan /\ [][NextScan]_vars

\* ==================================================================== C1
\* The supervisor loops of an instance id: the subscribe() coroutines that
\* are inside the while loop of lines 45-85.
InLoop(t) == tasks[t].kind = "subscribe" /\ tasks[t].pc \in {"waitTask", "waitFuture"}
LoopsOf(instance_id) == {t \in TaskIds : InLoop(t) /\ TaskKey(t) = instance_id}

\* The subscribe requests of an instance id that are sent and not answered.
InFlightOf(instance_id) ==
    {t \in TaskIds : tasks[t].kind = "subscribe" /\ TaskKey(t) = instance_id
                     /\ tasks[t].task = "running"}

AtMostOneLoop ==
    \A id \in InstanceIds :
        Cardinality(LoopsOf(id)) <= 1 /\ Cardinality(InFlightOf(id)) <= 1

\* A subscribe() that starts while an entry of its instance id exists
\* returns: it starts no loop and no request is sent in that step.
SubscribeOnEntryReturns ==
    \A t \in TaskIds :
        (/\ tasks[t].kind = "subscribe" /\ tasks[t].pc = "scheduled"
         /\ TaskKey(t) \in DOMAIN subscriptions
         /\ tasks'[t].pc # "scheduled")
        => /\ tasks'[t].pc = "returned"
           /\ \A u \in TaskIds : tasks'[u].task = tasks[u].task
           /\ \A u \in TaskIds : tasks'[u].attempts <= tasks[u].attempts
           /\ subscriptions' = subscriptions

\* C1: for every accountId:instanceNumber there is at most one supervisor
\* loop and at most one in-flight subscribe request at any time, and a
\* subscribe call made while an entry of the instance exists starts no
\* second loop and sends no request, after any interleaving of subscribe,
\* cancel_subscribe, cancel_account, on_timeout, on_disconnected and
\* on_reconnected.
C1_OneSupervisorLoop == []AtMostOneLoop /\ [][SubscribeOnEntryReturns]_vars

\* A loop is running for an instance id, it has been cancelled and not yet
\* resumed, and another subscribe() of the same id has returned meanwhile.
C1_Witness ==
    \E t, u \in TaskIds :
        /\ InLoop(t) /\ tasks[u].kind = "subscribe" /\ tasks[u].pc = "returned"
        /\ TaskKey(t) = TaskKey(u)
        /\ ~subscriptions[TaskKey(t)].shouldRetry

\* ==================================================================== C2
IsPrefix(s, t) == Len(s) <= Len(t) /\ SubSeq(t, 1, Len(s)) = s

\* The events put on the queue of an account, in the order they were put:
\* queue_packet and queue_event append an event when they create it.
RECURSIVE QueuedUpTo(_, _)
QueuedUpTo(account_id, n) ==
    IF n = 0 THEN <<>>
    ELSE IF events[account_id][n].queued
         THEN Append(QueuedUpTo(account_id, n - 1), n)
         ELSE QueuedUpTo(account_id, n - 1)
Enqueued(account_id) == QueuedUpTo(account_id, Len(events[account_id]))

\* C2: with sequential event processing the events put on the event queue
\* of one account (by queue_packet for packets with a sequence number, and
\* by queue_event) are executed once each, in the order they were enqueued,
\* and an event starts only when the event before it has notified all its
\* listeners; a queue that has been drained and removed has executed all
\* the events that were put on it.  Events of different accounts may run
\* at the same time.
C2_SequentialPerAccount ==
    /\ \A d \in DrainerIds : drainers[d].pc # "crashed"
    /\ \A a \in Accounts :
        /\ IsPrefix(started[a], Enqueued(a))
        /\ \A i \in 1..(Len(started[a]) - 1) : events[a][started[a][i]].state = "done"
        /\ a \notin DOMAIN eventQueues =>
              /\ started[a] = Enqueued(a)
              /\ \A i \in 1..Len(started[a]) : events[a][started[a][i]].state = "done"

\* Two events of one account were put on its queue, the first is done and
\* the second is running, while a queued event of another account runs too.
C2_Witness ==
    \E a, b \in Accounts :
        /\ a # b
        /\ Len(started[a]) >= 2
        /\ events[a][started[a][1]].state = "done"
        /\ events[a][started[a][2]].state = "running"
        /\ Len(started[b]) >= 1
        /\ events[b][started[b][1]].state = "running"

\* ==================================================================== C3
\* A future that holds a response holds one whose requestId is the id the
\* future was registered under, delivered by the socket it was registered on.
ResultMatches ==
    \A f \in FutureIds :
        futures[f].state \in {"result", "exception"} /\ futures[f].from # 0
        => /\ futures[f].value = futures[f].requestId
           /\ futures[f].from = futures[f].instance

\* A step that completes a pending future with a response or an error frame
\* takes it from the entry of its requestId in the map of its instance, and
\* leaves every other entry of every map as it was.
CompletionStep ==
    \A f \in FutureIds :
        (futures[f].state = "pending" /\ futures'[f].state \in {"result", "exception"}
            /\ futures'[f].from # 0)
        => LET s == futures[f].instance
               r == futures[f].requestId
           IN  /\ r \in DOMAIN socketInstances[s].requestResolves
               /\ socketInstances[s].requestResolves[r] = f
               /\ socketInstances'[s].requestResolves =
                      Remove(socketInstances[s].requestResolves, r)
               /\ \A t \in 1..Len(socketInstances) :
                      t # s => socketInstances'[t].requestResolves
                                   = socketInstances[t].requestResolves
               /\ \A g \in FutureIds \ {f} :
                      futures[g].state = "pending" => futures'[g] = futures[g]

\* A response or processingError frame whose requestId names no entry of the
\* map of its socket changes no future, no map and no call.
UnmatchedFrameIgnored ==
    \A s \in 1..MaxSockets, request_id \in AllRequestIds :
        (/\ s <= Len(socketInstances)
         /\ request_id \notin DOMAIN socketInstances[s].requestResolves
         /\ \/ OnResponse(s, request_id)
            \/ \E error \in ErrorFrames : OnProcessingError(s, request_id, error, 0))
        => UNCHANGED <<futures, socketInstances, calls>>

\* C3: a pending RPC on a socket is completed with a response only if the
\* requestId of the response equals the requestId under which the RPC was
\* registered on that socket; a response or processingError whose requestId
\* matches no pending entry completes no pending RPC and changes no pending
\* entry.
C3_ResponseMatchesRequestId ==
    []ResultMatches /\ [][CompletionStep /\ UnmatchedFrameIgnored]_vars

\* A request is completed by a response while a request registered under the
\* same requestId on the other socket is still pending, and the call of the
\* first has returned.
C3_Witness ==
    \E c, d \in CallIds :
        /\ calls[c].pc = "returned"
        /\ calls[d].pc = "waiting"
        /\ futures[calls[d].awaits].state = "pending"
        /\ futures[calls[d].awaits].requestId \in RequestIds
        /\ futures[calls[d].awaits].requestId
              \in DOMAIN socketInstances[futures[calls[d].awaits].instance].requestResolves

\* ==================================================================== C4
\* C4: after any interleaving of concurrent rpc_request calls for accounts
\* without assignment, calls that open a new socket and are suspended in
\* connect() while other calls place accounts included, the number of
\* accounts assigned to any one socket never exceeds MaxAccountsPerInstance.
C4_CapacityBound ==
    \A index \in 0..(MaxSockets - 1) :
        Cardinality(GetAssignedAccounts(socketInstancesByAccounts, index))
            <= MaxAccountsPerInstance

\* ==================================================================== C5
\* The step takes the entry of the account out of the assignment map.
C5_Removed(a) ==
    /\ a \in DOMAIN socketInstancesByAccounts
    /\ a \notin DOMAIN socketInstancesByAccounts'

\* The step is the end of unsubscribe(a), or a step of close().
C5_Unsubscribed(a) == \E outcome \in UnsubscribeOutcomes : UnsubscribeResume(a, outcome)
C5_Closed == CloseCall \/ CloseResume

\* The step is the except block of subscribe_task for a limit error of the
\* account.
C5_Limited(a) ==
    \E type \in LimitTypes, t \in 0..(MaxTime + 1) : SubscribeTaskLimit(a, type, t)

\* C5 as the specification states it: once an account has been assigned to
\* a socket it stays assigned until an explicit unsubscribe of the account or
\* a close of the pool; no other operation removes its entry from the
\* assignment map.
C5_RemovedOnlyByUnsubscribeOrClose ==
    [][\A a \in PoolAccounts : C5_Removed(a) => C5_Unsubscribed(a) \/ C5_Closed]_vars

\* C5, amended: once an account has been assigned to a socket it stays
\* assigned until an explicit unsubscribe of the account, a close of the
\* pool, or a subscribe attempt of the account that fails with
\* TooManyRequests of a LIMIT_ACCOUNT_SUBSCRIPTIONS type; no other operation
\* removes its entry from the assignment map.
C5_RemovedOnlyByUnsubscribeCloseOrLimit ==
    [][\A a \in PoolAccounts :
          C5_Removed(a) => C5_Unsubscribed(a) \/ C5_Closed \/ C5_Limited(a)]_vars

\* An account that a call has placed on a socket has lost its assignment to
\* a limit error, whose lock task is still to run, with no unsubscribe under
\* way and no close made.
C5_Witness ==
    \E c \in CallIds, l \in lockTasks :
        /\ calls[c].pc = "emitting"
        /\ calls[c].acc \notin DOMAIN socketInstancesByAccounts
        /\ calls[c].instance = l.index + 1
        /\ unsubscribing = {}
        /\ NoSynchronization
        /\ closer = NoCloser
        /\ closedInstances = 0

\* ==================================================================== C6
\* The lock of the client lets assignments through: recommendedRetryTime has
\* passed with fewer subscribed accounts than at the lock, or the cooldown
\* after the lock has passed.
C6_Released ==
    LET subscribed == Cardinality(SubscribedAccountIds(socketInstancesByAccounts, None))
    IN  \/ /\ now >= subscribeLock.recommendedRetryTime
           /\ subscribed < subscribeLock.lockedAtAccounts
        \/ now >= subscribeLock.lockedAtTime + SubscribeCooldownInSeconds

\* C6: after the lock of the client has been set by a
\* LIMIT_ACCOUNT_SUBSCRIPTIONS_PER_USER error, rpc_request gives a socket
\* assignment to an account without one only once recommendedRetryTime has
\* passed and the number of subscribed accounts is below lockedAtAccounts, or
\* lockedAtTime + subscribeCooldownInSeconds has passed.
C6_GlobalLockGate ==
    [][\A a \in PoolAccounts :
          (/\ subscribeLock.set
           /\ a \notin DOMAIN socketInstancesByAccounts
           /\ a \in DOMAIN socketInstancesByAccounts')
          => C6_Released]_vars

\* ==================================================================== C7
\* The error frames the retry rule names, and the request types it is for.
C7_Kinds == {"NotSynchronizedError", "TimeoutError", "NotAuthenticatedError",
             "InternalError"}
C7_Retried(c) == calls[c].type \notin {"trade", "subscribe"}

\* The attempt of call c has ended with the exception that _convert_error
\* made of an error frame of one of the kinds.
C7_Failed(c, kinds) ==
    /\ calls[c].pc = "waiting"
    /\ futures[calls[c].awaits].state = "exception"
    /\ futures[calls[c].awaits].from # 0
    /\ futures[calls[c].awaits].err.class \in {ConvertError(error) : error \in kinds}

\* C7: for a request whose type is neither trade nor subscribe, when an
\* attempt fails with a server error of kind NotSynchronized, Timeout,
\* NotAuthenticated or Internal, as _convert_error makes it of the error
\* frame, and fewer than retries retries have been made, rpc_request waits
\* min(2^k * minDelay, maxDelay) seconds, k the number of retries made, and
\* sends the request again.
C7_RetryWithBackoff ==
    [][\A c \in CallIds :
        /\ (/\ C7_Retried(c)
            /\ C7_Failed(c, C7_Kinds)
            /\ calls[c].retryCounter < Retries
            /\ calls'[c] # calls[c])
           => /\ calls'[c].pc = "backoff"
              /\ calls'[c].delay = Min(Pow2(calls[c].retryCounter) * MinRetryDelayInSeconds,
                                       MaxRetryDelayInSeconds)
        /\ (/\ C7_Retried(c)
            /\ calls[c].pc = "backoff"
            /\ calls[c].err.class \in {ConvertError(error) : error \in C7_Kinds}
            /\ calls[c].acc \in DOMAIN socketInstancesByAccounts
            /\ calls'[c] # calls[c])
           => /\ calls'[c].pc = "emitting"
              /\ calls'[c].attempts = calls[c].attempts + 1
              /\ calls'[c].retryCounter = calls[c].retryCounter + 1]_vars

\* ==================================================================== C8
\* The classes of the errors that are not retried.
C8_NonRetriable == {"ValidationException", "NotFoundException", "TradeException",
                    "UnauthorizedException"}

\* No call makes more than retries + 1 attempts, and none sleeps for a retry
\* after retries retries.
C8_AttemptsBounded ==
    \A c \in CallIds :
        /\ calls[c].attempts <= Retries + 1
        /\ calls[c].retryCounter <= Retries
        /\ calls[c].pc = "backoff" => calls[c].retryCounter < Retries

\* The step in which rpc_request gets the exception of an attempt: when its
\* class is not retried, or retries retries have been made, the call ends in
\* this step with this exception and makes no attempt.
C8_RaisedAtOnce ==
    \A c \in CallIds :
        /\ (/\ calls[c].pc = "waiting"
            /\ futures[calls[c].awaits].state = "exception"
            /\ \/ futures[calls[c].awaits].err.class \in C8_NonRetriable
               \/ calls[c].retryCounter = Retries
            /\ calls'[c] # calls[c])
           => /\ calls'[c].pc = "raised"
              /\ calls'[c].err = futures[calls[c].awaits].err
              /\ calls'[c].attempts = calls[c].attempts
        /\ (/\ calls[c].pc \in {"emitting", "waiting"}
            /\ calls[c].retryCounter = Retries
            /\ calls'[c] # calls[c])
           => /\ calls'[c].pc \in {"waiting", "returned", "raised"}
              /\ calls'[c].attempts = calls[c].attempts

\* C8: one rpc_request call for an assigned account on a socket whose
\* connect has resolved makes at most retries + 1 attempts and then ends: an
\* error of a kind that is not retried is raised to the caller right after
\* the attempt that produced it with no further attempt, and when the
\* retries are exhausted the last error is raised to the caller.
C8_BoundedAttempts == []C8_AttemptsBounded /\ [][C8_RaisedAtOnce]_vars

\* A call has made retries + 1 attempts, each ended with an error that is
\* retried, and has raised the last one.
C8_Witness ==
    \E c \in CallIds :
        /\ calls[c].pc = "raised"
        /\ calls[c].attempts = Retries + 1
        /\ calls[c].retryCounter = Retries
        /\ calls[c].err.class \in {"NotSynchronizedException", "TimeoutException",
                                   "InternalException", "TooManyRequestsException"}

\* ==================================================================== C9
C9_Single(c) == calls[c].type \in {"trade", "subscribe"}

\* A call of type trade or subscribe never makes a second attempt, never
\* sleeps for a retry, and has made its one attempt when it has ended past
\* the wait for the connect (line 1074).
C9_OneAttempt ==
    \A c \in CallIds :
        C9_Single(c)
        => /\ calls[c].attempts <= 1
           /\ calls[c].retryCounter = 0
           /\ calls[c].pc # "backoff"
           /\ calls[c].pc \in {"emitting", "waiting", "returned"} => calls[c].attempts = 1
           /\ calls[c].pc = "raised" /\ calls[c].line # 1074 => calls[c].attempts = 1

\* The step in which the attempt of such a call ends with an error raises
\* this error to the caller.
C9_ErrorRaised ==
    \A c \in CallIds :
        (C9_Single(c) /\ calls[c].pc = "waiting" /\ calls'[c] # calls[c])
        => CASE futures[calls[c].awaits].state = "exception" ->
                    /\ calls'[c].pc = "raised"
                    /\ calls'[c].err = futures[calls[c].awaits].err
             [] futures[calls[c].awaits].state = "pending" ->
                    /\ calls'[c].pc = "raised"
                    /\ calls'[c].err.class = "TimeoutException"
             [] OTHER -> calls'[c].pc \in {"returned", "raised"}

\* C9: rpc_request for a request of type trade or subscribe makes exactly
\* one attempt: whatever error that attempt produces (Timeout,
\* NotSynchronized, Internal and TooManyRequests included) is raised to the
\* caller, and the call never sends the request a second time.
C9_SingleAttempt == []C9_OneAttempt /\ [][C9_ErrorRaised]_vars

\* A subscribe or trade call has raised, after one attempt, an error that is
\* retried for the other request types.
C9_Witness ==
    \E c \in CallIds :
        /\ C9_Single(c)
        /\ calls[c].pc = "raised"
        /\ calls[c].attempts = 1
        /\ calls[c].line = 1079
        /\ calls[c].err.class \in {"NotSynchronizedException", "TimeoutException",
                                   "InternalException", "TooManyRequestsException"}

\* =================================================================== C10
\* A pending request has been failed by a processingError frame with error
\* UnauthorizedError.
C10_Unauthorized ==
    \E f \in FutureIds :
        /\ futures[f].state = "exception"
        /\ futures[f].from # 0
        /\ futures[f].err.class = "UnauthorizedException"

\* The pool is closed: every socket instance is marked disconnected, no
\* request is pending and no account is assigned to a socket.
C10_PoolClosed ==
    /\ \A s \in 1..Len(socketInstances) :
          /\ ~socketInstances[s].connected
          /\ socketInstances[s].requestResolves = <<>>
    /\ \A f \in FutureIds : futures[f].state # "pending"
    /\ DOMAIN socketInstancesByAccounts = {}

\* C10: when a processingError frame with error UnauthorizedError is
\* received for a pending request, the socket pool is closed: every socket
\* instance is marked disconnected, the other pending requests are failed,
\* and the account-to-socket assignment map is emptied.
C10_UnauthorizedClosesPool == C10_Unauthorized ~> C10_PoolClosed

\* =================================================================== C11
\* The entry of the loop that coroutine t runs still asks for attempts:
\* cancel_subscribe has not been called for it.
C11_NotCancelled(t) ==
    /\ InLoop(t)
    /\ TaskKey(t) \in DOMAIN subscriptions
    /\ subscriptions[TaskKey(t)].shouldRetry

\* The attempt of loop t has ended, whatever its outcome, and the loop has
\* not looked at it yet.
C11_AttemptOver(t) ==
    tasks[t].pc = "waitTask" /\ tasks[t].task \in {"done", "cancelled"}

\* The loop takes its step after an attempt: it waits the backoff that was
\* current during the attempt and doubles the backoff up to 300 seconds.
C11_WaitsBackoff(t) ==
    /\ tasks'[t].pc = "waitFuture"
    /\ tasks'[t].waitTask = "sleeping"
    /\ tasks'[t].future = "pending"
    /\ tasks'[t].retryInterval = tasks[t].interval
    /\ tasks'[t].interval = Min(2 * tasks[t].interval, 300)
    /\ tasks'[t].attempts = tasks[t].attempts

\* The loop takes its step after the backoff: it creates the next attempt.
C11_NextAttempt(t) ==
    /\ tasks'[t].pc = "waitTask"
    /\ tasks'[t].task = "created"
    /\ subscriptions'[TaskKey(t)].task = t

C11_LoopStep(t) ==
    /\ InLoop(t) => TaskKey(t) \in DOMAIN subscriptions
    /\ C11_NotCancelled(t) =>
          /\ InLoop(t)'
          /\ tasks'[t].pc # tasks[t].pc =>
                IF tasks[t].pc = "waitTask"
                THEN C11_AttemptOver(t) /\ C11_WaitsBackoff(t)
                ELSE tasks[t].future = "true" /\ C11_NextAttempt(t)
          /\ (tasks'[t].attempts # tasks[t].attempts) =>
                /\ tasks[t].task = "created"
                /\ tasks'[t].task = "running"
                /\ tasks'[t].attempts = tasks[t].attempts + 1
          /\ ~subscriptions'[TaskKey(t)].shouldRetry =>
                \/ CancelSubscribe(TaskKey(t))
                \/ \E a \in Accounts : CancelAccount(a)
                \/ \E i \in {0, 1}, ids \in SUBSET Accounts : OnReconnected(i, ids)

\* C11: a supervisor loop started by subscribe keeps sending subscribe
\* requests, waiting the current backoff between attempts, until
\* cancel_subscribe is called for that instance: while its entry is not
\* cancelled the loop stays in the loop, the end of an attempt (a response,
\* a TooManyRequests error, any other error) only takes it to the backoff
\* wait, the end of the wait only takes it to the next attempt, and its
\* entry is cancelled by nothing but cancel_subscribe (called directly, by
\* cancel_account or by on_reconnected).
C11_RetriesUntilCancelled == [][\A t \in TaskIds : C11_LoopStep(t)]_vars

\* A loop that was not cancelled has sent its second request after an
\* attempt that ended and a backoff wait of 3 seconds.
C11_Witness ==
    \E t \in TaskIds :
        /\ C11_NotCancelled(t)
        /\ tasks[t].attempts = 2
        /\ tasks[t].task = "running"
        /\ tasks[t].interval = 6

\* =================================================================== C12
\* cancel_subscribe has been called for the entry of the loop that
\* coroutine t runs.
C12_Cancelled(t) ==
    /\ InLoop(t)
    /\ TaskKey(t) \in DOMAIN subscriptions
    /\ ~subscriptions[TaskKey(t)].shouldRetry

\* A cancelled loop has no attempt in flight and no backoff wait pending:
\* what it awaits has ended, so its next step can run.
C12_NothingPending(t) ==
    /\ tasks[t].task \notin {"created", "running", "sleeping"}
    /\ tasks[t].waitTask # "sleeping"
    /\ tasks[t].future # "pending"
    /\ \/ tasks[t].pc = "waitTask" /\ tasks[t].task \in {"done", "cancelled"}
       \/ tasks[t].pc = "waitFuture" /\ tasks[t].future \in {"true", "false"}

C12_CancelledIsIdle == \A t \in TaskIds : C12_Cancelled(t) => C12_NothingPending(t)

\* The only step a cancelled loop takes is its last one: it sends nothing,
\* leaves the loop and deletes its entry.
C12_CancelledStep(t) ==
    C12_Cancelled(t) /\ tasks'[t] # tasks[t] =>
        /\ tasks'[t].kind = "subscribe"
        /\ tasks'[t].pc = "ended"
        /\ TaskKey(t) \notin DOMAIN subscriptions'

\* A subscribe() that starts when its id has no entry enters the loop and
\* creates an attempt.
C12_FreshStep(t) ==
    /\ tasks[t].kind = "subscribe"
    /\ tasks[t].pc = "scheduled"
    /\ TaskKey(t) \notin DOMAIN subscriptions
    /\ tasks'[t] # tasks[t]
    => /\ InLoop(t)'
       /\ tasks'[t].task = "created"
       /\ subscriptions'[TaskKey(t)].shouldRetry

\* C12: after cancel_subscribe(id) is called while a loop for id runs, the
\* in-flight attempt is cancelled and the pending backoff wait is aborted,
\* the loop sends no further request, it ends and removes its entry, and a
\* subscribe call for id made after that starts a fresh loop that sends a
\* request.
C12_CancelEndsLoop ==
    /\ []C12_CancelledIsIdle
    /\ [][\A t \in TaskIds : C12_CancelledStep(t) /\ C12_FreshStep(t)]_vars
    /\ \A t \in TaskIds : C12_Cancelled(t) ~> ~InLoop(t)

\* A loop of an id was cancelled and has ended, and a later subscribe() of
\* the same id is in its loop with a request in flight.
C12_Witness ==
    \E t, u \in TaskIds :
        /\ tasks[t].kind = "subscribe" /\ tasks[t].pc = "ended"
        /\ InLoop(u) /\ TaskKey(u) = TaskKey(t)
        /\ tasks[u].task = "running"
        /\ subscriptions[TaskKey(u)].shouldRetry

\* =================================================================== C13
\* The request of loop t is in flight, its account has a socket, and r is
\* later than the end of the backoff wait that would follow the attempt.
C13_Late(t, r) ==
    /\ tasks[t].task = "running"
    /\ tasks[t].acc \in DOMAIN socketInstancesByAccounts
    /\ now + tasks[t].interval < r

\* The next request of the loop is sent after the attempt has ended and the
\* loop has waited the current backoff: not earlier than now, plus what the
\* attempt sleeps, plus the backoff.
C13_NextRequestTime(t) == now + tasks'[t].sleep + tasks[t].interval

C13_WaitsForRetryTime(t, type, r) ==
    C13_Late(t, r) /\ TaskTooManyRequests(t, type, r) => C13_NextRequestTime(t) >= r

\* C13: when an attempt fails with TooManyRequests whose recommendedRetryTime
\* is later than now plus the current backoff, the loop does not send its
\* next request before recommendedRetryTime, for every TooManyRequests type,
\* LIMIT_ACCOUNT_SUBSCRIPTIONS_PER_SERVER and
\* LIMIT_ACCOUNT_SUBSCRIPTIONS_PER_USER_PER_SERVER included.
C13_NotBeforeRetryTime ==
    [][\A t \in TaskIds, type \in TooManyRequestsTypes :
          \A r \in RetryTimes(t) : C13_WaitsForRetryTime(t, type, r)]_vars

\* =================================================================== C14
\* The attempt of loop t fails with TooManyRequests of the given type while
\* its account has a socket: a LIMIT type requests lock_socket_instance for
\* that socket with the metadata of the error, any other type requests no
\* lock and leaves the assignments alone.
C14_ErrorStep(t, type, r) ==
    /\ tasks[t].task = "running"
    /\ tasks[t].acc \in DOMAIN socketInstancesByAccounts
    /\ TaskTooManyRequests(t, type, r)
    => IF type \in {"LIMIT_ACCOUNT_SUBSCRIPTIONS_PER_USER",
                    "LIMIT_ACCOUNT_SUBSCRIPTIONS_PER_SERVER",
                    "LIMIT_ACCOUNT_SUBSCRIPTIONS_PER_USER_PER_SERVER"}
       THEN /\ [index |-> socketInstancesByAccounts[tasks[t].acc], type |-> type,
                recommendedRetryTime |-> r] \in lockTasks'
            /\ lockTasks' \ lockTasks \subseteq
                  {[index |-> socketInstancesByAccounts[tasks[t].acc], type |-> type,
                    recommendedRetryTime |-> r]}
       ELSE /\ lockTasks' = lockTasks
            /\ socketInstancesByAccounts' = socketInstancesByAccounts

\* lock_socket_instance runs: the lock of LIMIT_ACCOUNT_SUBSCRIPTIONS_PER_USER
\* is the lock of the pool and touches no socket; the lock of the other two
\* types touches the socket of the request only and not the lock of the pool.
C14_LockStep(l) ==
    LockSocketInstance(l) =>
        IF l.type = "LIMIT_ACCOUNT_SUBSCRIPTIONS_PER_USER"
        THEN /\ subscribeLock'.set
             /\ subscribeLock'.recommendedRetryTime = l.recommendedRetryTime
             /\ socketInstances' = socketInstances
        ELSE /\ subscribeLock' = subscribeLock
             /\ \A s \in 1..Len(socketInstances) :
                   IF s = closedInstances + l.index + 1
                   THEN \/ socketInstances'[s].subscribeLock = socketInstances[s].subscribeLock
                        \/ /\ socketInstances'[s].subscribeLock.set
                           /\ socketInstances'[s].subscribeLock.type = l.type
                           /\ socketInstances'[s].subscribeLock.recommendedRetryTime
                                 = l.recommendedRetryTime
                   ELSE socketInstances'[s] = socketInstances[s]

\* C14: when an attempt fails with TooManyRequests of one of the three
\* LIMIT_ACCOUNT_SUBSCRIPTIONS types, lock_socket_instance is requested with
\* the metadata of the error for the socket the account was assigned to at
\* that time (a pool-wide lock for PER_USER, a socket-scoped lock for the
\* other two); for any other TooManyRequests type no lock is requested and
\* the assignment of the account is unchanged.
C14_LockRequested ==
    [][/\ \A t \in TaskIds, type \in TooManyRequestsTypes :
             \A r \in RetryTimes(t) : C14_ErrorStep(t, type, r)
       /\ \A l \in lockTasks : C14_LockStep(l)]_vars

\* The lock task of a LIMIT_ACCOUNT_SUBSCRIPTIONS_PER_SERVER error of the
\* first account has locked the socket the account was on, and that socket
\* alone.
C14_Witness ==
    /\ AccountList[1] \notin DOMAIN socketInstancesByAccounts
    /\ socketInstances[2].subscribeLock.set
    /\ socketInstances[2].subscribeLock.type = "LIMIT_ACCOUNT_SUBSCRIPTIONS_PER_SERVER"
    /\ ~socketInstances[1].subscribeLock.set
    /\ ~subscribeLock.set

\* =================================================================== C15
\* The number of subscribed accounts of the socket at index: the accounts
\* assigned to it that have a connected host.
C15_Subscribed(index) ==
    Cardinality({a \in DOMAIN socketInstancesByAccounts :
                    /\ socketInstancesByAccounts[a] = index
                    /\ \E h \in connectedHosts : SplitAccount(h) = a})

C15_Assigned(index) ==
    Cardinality({a \in DOMAIN socketInstancesByAccounts :
                    socketInstancesByAccounts[a] = index})

\* The socket at index carries a lock that makes the scan pass over it.
C15_Skip(index) ==
    LET lock == SocketList[index + 1].subscribeLock
    IN  /\ lock.set
        /\ \/ /\ lock.type = "LIMIT_ACCOUNT_SUBSCRIPTIONS_PER_USER_PER_SERVER"
              /\ \/ now < lock.recommendedRetryTime
                 \/ C15_Subscribed(index) >= lock.lockedAtAccounts
           \/ /\ lock.type = "LIMIT_ACCOUNT_SUBSCRIPTIONS_PER_SERVER"
              /\ now < lock.recommendedRetryTime
              /\ C15_Subscribed(index) >= lock.lockedAtAccounts

C15_Candidates ==
    {index \in 0..(Len(SocketList) - 1) :
        ~C15_Skip(index) /\ C15_Assigned(index) < MaxAccountsPerInstance}

\* Call c runs the scan in this step: it is rpc_request for an account
\* without a socket, at its first line or at the end of its wait for the
\* lock of the client.
C15_Scans(c) ==
    /\ calls[c].pc \in {"idle", "lockPoll"}
    /\ calls'[c].pc \notin {"idle", "lockPoll"}
    /\ calls'[c].acc \notin DOMAIN socketInstancesByAccounts

C15_ScanStep(c) ==
    C15_Scans(c) =>
        IF C15_Candidates # {}
        THEN /\ calls'[c].acc \in DOMAIN socketInstancesByAccounts'
             /\ socketInstancesByAccounts'[calls'[c].acc] \in C15_Candidates
             /\ \A index \in C15_Candidates :
                   socketInstancesByAccounts'[calls'[c].acc] <= index
             /\ Len(socketInstances') = Len(socketInstances)
        ELSE /\ calls'[c].pc = "connecting"
             /\ Len(socketInstances') = Len(socketInstances) + 1
             /\ calls'[c].acc \notin DOMAIN socketInstancesByAccounts'

\* C15: the scan of rpc_request passes over a socket with a per-socket lock
\* exactly when the lock is of type PER_USER_PER_SERVER and now is before
\* recommendedRetryTime or the subscribed accounts of the socket are at
\* least lockedAtAccounts, or the lock is of type PER_SERVER and now is
\* before recommendedRetryTime and the subscribed accounts are at least
\* lockedAtAccounts; the scan takes the first socket it does not pass over
\* that has fewer assigned accounts than the maximum per instance, and a new
\* socket is opened only when there is none.
C15_ScanOrder == [][\A c \in CallIds : C15_ScanStep(c)]_vars

\* The first account lost its socket to a limit error, the lock of that
\* error is on socket 0, which has room, and the scan for the account has
\* passed over socket 0 and put it on socket 1; no other call was made.
C15_Witness ==
    /\ socketInstances[1].subscribeLock.set
    /\ C15_Assigned(0) < MaxAccountsPerInstance
    /\ AccountList[1] \in DOMAIN socketInstancesByAccounts
    /\ socketInstancesByAccounts[AccountList[1]] = 1
    /\ \A c \in CallIds : c # 1 => calls[c].pc = "idle"

\* =================================================================== C16
\* lock_socket_instance runs for a socket of the list with a per-socket
\* type: without subscribed accounts on the socket it starts the reconnect
\* of the socket and leaves its lock as it is, otherwise it sets the lock
\* with the number of subscribed accounts.
C16_LockStep(l) ==
    LET s == closedInstances + l.index + 1
    IN  /\ LockSocketInstance(l)
        /\ l.type \in {"LIMIT_ACCOUNT_SUBSCRIPTIONS_PER_SERVER",
                       "LIMIT_ACCOUNT_SUBSCRIPTIONS_PER_USER_PER_SERVER"}
        /\ l.index < Len(SocketList)
        => IF C15_Subscribed(l.index) = 0
           THEN /\ socketInstances'[s].subscribeLock = socketInstances[s].subscribeLock
                /\ socketInstances'[s].isReconnecting
           ELSE /\ socketInstances'[s].subscribeLock.set
                /\ socketInstances'[s].subscribeLock.lockedAtAccounts
                      = C15_Subscribed(l.index)
                /\ socketInstances'[s].subscribeLock.type = l.type
                /\ socketInstances'[s].isReconnecting = socketInstances[s].isReconnecting

C16_LocksCountAccounts ==
    \A s \in 1..Len(socketInstances) :
        socketInstances[s].subscribeLock.set =>
            socketInstances[s].subscribeLock.lockedAtAccounts >= 1

\* C16: lock_socket_instance with a per-socket type never sets a lock on a
\* socket that has zero subscribed accounts: it reconnects that socket and
\* leaves its subscribeLock unset; a lock with lockedAtAccounts equal to the
\* current subscribed count is set only when that count is at least 1.
C16_NoLockWithoutAccounts ==
    /\ []C16_LocksCountAccounts
    /\ [][\A l \in lockTasks : C16_LockStep(l)]_vars

\* The lock task of a limit error has run for a socket without subscribed
\* accounts: the socket is reconnecting and has no lock.
C16_Witness ==
    /\ lockTasks = {}
    /\ \E s \in 1..Len(socketInstances) :
          /\ socketInstances[s].isReconnecting
          /\ ~socketInstances[s].subscribeLock.set

\* =================================================================== C17
\* The account of the loop of instance_id is assigned to the socket.
C17_OnSocket(instance_id, socket_instance_index) ==
    /\ SplitAccount(instance_id) \in DOMAIN socketInstancesByAccounts
    /\ socketInstancesByAccounts[SplitAccount(instance_id)] = socket_instance_index

\* The loop of the entry is cancelled: no retry, no attempt in flight, no
\* backoff wait pending.
C17_CancelledAfter(instance_id) ==
    /\ ~subscriptions'[instance_id].shouldRetry
    /\ \A t \in LoopsOf(instance_id) :
          /\ tasks'[t].task \notin {"created", "running", "sleeping"}
          /\ tasks'[t].future # "pending"
          /\ tasks'[t].waitTask # "sleeping"

C17_UntouchedAfter(instance_id) ==
    /\ subscriptions'[instance_id] = subscriptions[instance_id]
    /\ \A t \in LoopsOf(instance_id) : tasks'[t] = tasks[t]

C17_ReconnectStep(socket_instance_index, reconnect_account_ids) ==
    OnReconnected(socket_instance_index, reconnect_account_ids) =>
        \A instance_id \in DOMAIN subscriptions :
            IF C17_OnSocket(instance_id, socket_instance_index)
            THEN C17_CancelledAfter(instance_id)
            ELSE C17_UntouchedAfter(instance_id)

\* C17: on_reconnected(socketIndex, ids) cancels every running supervisor
\* loop whose account is assigned to socketIndex and leaves unchanged the
\* supervisor loops of accounts assigned to other sockets.
C17_CancelsLoopsOfSocket ==
    [][\A i \in {0, 1} : \A ids \in ReconnectAccountIds(i) :
          C17_ReconnectStep(i, ids)]_vars

\* After on_reconnected for socket 0 the loop of the account of socket 0 is
\* cancelled and the loop of the account of socket 1 still retries, with
\* its request in flight.
C17_Witness ==
    /\ InstanceId(AccountList[1], 0) \in DOMAIN subscriptions
    /\ InstanceId(AccountList[2], 0) \in DOMAIN subscriptions
    /\ ~subscriptions[InstanceId(AccountList[1], 0)].shouldRetry
    /\ subscriptions[InstanceId(AccountList[2], 0)].shouldRetry
    /\ \E t \in LoopsOf(InstanceId(AccountList[2], 0)) : tasks[t].task = "running"
    /\ \E t \in TaskIds : tasks[t].kind = "wait_resubscribe"

\* =================================================================== C18
\* A wait_resubscribe of the account has been created by on_reconnected and
\* has not ended.
C18_Waiting(account_id) ==
    \E t \in TaskIds : /\ tasks[t].kind = "wait_resubscribe"
                       /\ tasks[t].pc \in {"scheduled", "polling"}
                       /\ tasks[t].acc = account_id

\* The supervisor loops of the account, and its entries.
C18_LoopsOfAccount(account_id) ==
    {u \in TaskIds : InLoop(u) /\ tasks[u].acc = account_id}

C18_EntriesOfAccount(account_id) ==
    {key \in DOMAIN subscriptions : SplitAccount(key) = account_id}

\* A loop of the account that was started and not cancelled.
C18_NewLoop(account_id) ==
    \E u \in C18_LoopsOfAccount(account_id) : subscriptions[TaskKey(u)].shouldRetry

\* Only one wait_resubscribe of an account polls, so that one subscribe is
\* started for it.
C18_OneWaiter ==
    \A a \in Accounts :
        Cardinality({t \in TaskIds : /\ tasks[t].kind = "wait_resubscribe"
                                     /\ tasks[t].pc = "polling"
                                     /\ tasks[t].acc = a}) <= 1

\* wait_resubscribe starts the new subscribe only when every earlier loop of
\* its account has ended.
C18_NotBeforeEnd(t) ==
    tasks[t].kind = "wait_resubscribe" /\ tasks'[t].kind = "subscribe" =>
        /\ tasks'[t].acc = tasks[t].acc
        /\ C18_LoopsOfAccount(tasks[t].acc) = {}
        /\ C18_EntriesOfAccount(tasks[t].acc) = {}

\* wait_resubscribe, when it runs with no loop of its own account left,
\* starts the new subscribe whatever the loops of other accounts do.
C18_Independent(t) ==
    /\ tasks[t].kind = "wait_resubscribe"
    /\ tasks[t].pc = "polling" \/ tasks[t].acc \notin awaitingResubscribe
    /\ tasks'[t] # tasks[t]
    /\ C18_EntriesOfAccount(tasks[t].acc) = {}
    => tasks'[t].kind = "subscribe" /\ tasks'[t].acc = tasks[t].acc

\* C18: after on_reconnected(socketIndex, ids), for each account in ids
\* exactly one new supervisor loop is eventually started, not before every
\* earlier supervisor loop of that same account has ended, and its start
\* does not depend on loops of other accounts still running.
C18_ResubscribesEachAccount ==
    /\ []C18_OneWaiter
    /\ [][\A t \in TaskIds : C18_NotBeforeEnd(t) /\ C18_Independent(t)]_vars
    /\ \A a \in Accounts : C18_Waiting(a) ~> C18_NewLoop(a)

\* =================================================================== C20
C20_CancelStep(account_id) ==
    CancelAccount(account_id) =>
        \A instance_id \in DOMAIN subscriptions :
            IF SplitAccount(instance_id) = account_id
            THEN C17_CancelledAfter(instance_id)
            ELSE C17_UntouchedAfter(instance_id)

\* C20: cancel_account(a) cancels the supervisor loops of every instance
\* number of account a and of no other account.
C20_CancelsOnlyTheAccount == [][\A a \in Accounts : C20_CancelStep(a)]_vars

\* =================================================================== C19
\* The account has a socket assignment and the transport of that socket is
\* connected.
C19_SocketConnected(account_id) ==
    /\ account_id \in DOMAIN socketInstancesByAccounts
    /\ socketInstancesByAccounts[account_id] < Len(SocketList)
    /\ SocketList[socketInstancesByAccounts[account_id] + 1].socketConnected

\* The step creates one subscribe() of the instance and nothing else.
C19_Starts(account_id, instance_number) ==
    \E t \in TaskIds :
        /\ tasks[t].kind = "free"
        /\ tasks'[t].kind = "subscribe"
        /\ tasks'[t].pc = "scheduled"
        /\ tasks'[t].acc = account_id
        /\ tasks'[t].num = instance_number
        /\ \A u \in TaskIds \ {t} : tasks'[u] = tasks[u]

C19_TimeoutStep(account_id, instance_number) ==
    OnTimeout(account_id, instance_number) =>
        /\ IF C19_SocketConnected(account_id)
           THEN C19_Starts(account_id, instance_number)
           ELSE tasks' = tasks
        /\ subscriptions' = subscriptions
        /\ socketInstancesByAccounts' = socketInstancesByAccounts

\* The second account is on a socket whose transport never connects: no
\* subscribe() is ever started for it.
C19_NoneForUnconnected ==
    \A t \in TaskIds : tasks[t].kind = "subscribe" => tasks[t].acc # AccountList[2]

\* C19: on_timeout(accountId, instanceNumber) starts a supervisor loop for
\* the instance if and only if the account currently has a socket
\* assignment and that socket's transport is connected; otherwise it does
\* nothing.
C19_TimeoutResubscribes ==
    /\ []C19_NoneForUnconnected
    /\ [][\A a \in Accounts, n \in InstanceNumbers : C19_TimeoutStep(a, n)]_vars

\* on_timeout has started the loop of the first account, whose request is
\* in flight.
C19_Witness ==
    \E t \in TaskIds :
        /\ InLoop(t)
        /\ tasks[t].acc = AccountList[1]
        /\ tasks[t].task = "running"
        /\ C19_SocketConnected(AccountList[1])

\* ---------------------------------------------------------------- C26
\* The wait a loop is in after its k-th attempt.
C26_Backoff(k) == Min(3 * Pow2(k - 1), 300)

\* A loop that waits between two attempts has made k >= 1 attempts and
\* sleeps min(3 * 2^(k-1), 300) seconds.
C26_WaitIsBackoff ==
    \A t \in TaskIds :
        tasks[t].kind = "subscribe" /\ tasks[t].pc = "waitFuture" =>
            /\ tasks[t].attempts >= 1
            /\ tasks[t].retryInterval = C26_Backoff(tasks[t].attempts)

\* A loop that starts has made no attempt and its backoff is 3 seconds,
\* whatever the loops before it reached.
C26_StartsAtThree(t) ==
    SubscribeStart(t) /\ tasks'[t].pc = "waitTask" =>
        tasks'[t].attempts = 0 /\ tasks'[t].interval = 3

\* The backoff of a loop changes only when an attempt has ended, and the
\* number of attempts only when an attempt starts.
C26_OnePerAttempt(t) ==
    tasks[t].kind = "subscribe" /\ tasks'[t].kind = "subscribe"
    /\ tasks[t].pc \in {"waitTask", "waitFuture"}
    /\ tasks'[t].pc \in {"waitTask", "waitFuture"} =>
        /\ tasks'[t].interval # tasks[t].interval =>
               tasks[t].pc = "waitTask" /\ tasks'[t].pc = "waitFuture"
        /\ tasks'[t].attempts # tasks[t].attempts =>
               /\ tasks[t].pc = "waitTask" /\ tasks[t].task = "created"
               /\ tasks'[t].attempts = tasks[t].attempts + 1

\* C26: within one subscribe loop the wait between the end of attempt k and
\* the start of attempt k+1 is min(3 * 2^(k-1), 300) seconds (3, 6, 12, ...,
\* never more than 300), and every newly started loop begins again at 3.
C26_BackoffSequence ==
    /\ []C26_WaitIsBackoff
    /\ [][\A t \in TaskIds : C26_StartsAtThree(t) /\ C26_OnePerAttempt(t)]_vars

\* A loop has ended, and the loop of the same instance started after it
\* waits the limit of 300 seconds after its eighth attempt.
C26_Witness ==
    \E t, u \in TaskIds :
        /\ t < u
        /\ tasks[t].kind = "subscribe" /\ tasks[t].pc = "ended"
        /\ tasks[u].kind = "subscribe" /\ tasks[u].pc = "waitFuture"
        /\ tasks[u].acc = tasks[t].acc
        /\ tasks[u].attempts = 8 /\ tasks[u].retryInterval = 300

\* ---------------------------------------------------------------- C27
\* What a second cancel_subscribe(instance_id), called in the state the
\* first one has left, would leave: the state as it is.
C27_SecondChangesNothing(instance_id) ==
    /\ SubscriptionsAfterCancel({instance_id})' = subscriptions'
    /\ TasksAfterCancel({instance_id})' = tasks'

C27_CancelStep(instance_id) ==
    CancelSubscribe(instance_id) =>
        /\ C27_SecondChangesNothing(instance_id)
        /\ instance_id \notin DOMAIN subscriptions => UNCHANGED vars
        /\ DOMAIN subscriptions' = DOMAIN subscriptions

\* C27: cancel_subscribe is idempotent: calling it twice for the same
\* instance id leaves the same state as calling it once, and calling it for an
\* id without a subscription entry changes nothing.
C27_CancelIdempotent ==
    [][\A instance_id \in InstanceIds : C27_CancelStep(instance_id)]_vars

\* cancel_subscribe has acted on a loop that was waiting between two
\* attempts: its future is False, its wait is cancelled and the entry, not
\* yet removed by the loop, has shouldRetry False.
C27_Witness ==
    \E t \in TaskIds :
        /\ tasks[t].pc = "waitFuture"
        /\ tasks[t].future = "false"
        /\ tasks[t].waitTask = "cancelled"
        /\ TaskKey(t) \in DOMAIN subscriptions
        /\ ~subscriptions[TaskKey(t)].shouldRetry
        /\ \E id \in InstanceIds : id \notin DOMAIN subscriptions

\* ---------------------------------------------------------------- C30
\* The drain tasks of an account that have not ended.
C30_DrainTasks(account_id) ==
    {d \in DrainerIds : drainers[d].pc # "none" /\ drainers[d].acc = account_id}

\* An account has a drain task exactly while it has an event-queue entry,
\* and never two; an event on the queue that has not begun is on the queue
\* of an account whose drain task is alive.
C30_OneDrainTask ==
    \A a \in Accounts :
        /\ Cardinality(C30_DrainTasks(a)) = IF a \in DOMAIN eventQueues THEN 1 ELSE 0
        /\ \A d \in C30_DrainTasks(a) : drainers[d].pc \in {"created", "awaiting"}
        /\ \A e \in 1..Len(events[a]) :
              events[a][e].queued /\ events[a][e].state = "new" =>
                  /\ a \in DOMAIN eventQueues
                  /\ \E i \in 1..Len(eventQueues[a]) : eventQueues[a][i] = e

\* A drain task is created only in a step that finds no entry of its account.
C30_Created(d) ==
    drainers[d].pc = "none" /\ drainers'[d].pc # "none" =>
        /\ drainers'[d].pc = "created"
        /\ drainers'[d].acc \notin DOMAIN eventQueues
        /\ drainers'[d].acc \in DOMAIN eventQueues'

\* The entry of an account is removed only in a step of its drain task, which
\* ends with it, and only when every event that was put on the queue has been
\* executed.
C30_Removed(a) ==
    a \in DOMAIN eventQueues /\ a \notin DOMAIN eventQueues' =>
        /\ \E d \in C30_DrainTasks(a) :
              /\ DrainStart(d) \/ DrainResume(d)
              /\ drainers'[d] = NoDrainer
        /\ \A e \in 1..Len(events[a]) :
              events[a][e].queued => events[a][e].state = "done"
        /\ started[a] = Enqueued(a)

\* A queued event begins only in a step of the drain task of its account.
C30_Executed(a) ==
    \A e \in 1..Len(events[a]) :
        events[a][e].queued /\ events[a][e].state = "new"
        /\ events'[a][e].state # "new" =>
            \E d \in C30_DrainTasks(a) : DrainStart(d) \/ DrainResume(d)

\* An event put on the queue is executed while the entry is still there.
C30_Runs(a, e) ==
    (e <= Len(events[a]) /\ events[a][e].queued /\ events[a][e].state = "new")
        ~> (e <= Len(events[a]) /\ events[a][e].state = "running"
            /\ a \in DOMAIN eventQueues)

\* C30: at most one drain task exists per account: a drain task is created
\* only when the account has no event-queue entry, the entry is removed only
\* by that drain task and only when the queue is empty, and an event appended
\* before that removal is executed by that task.
C30_OneDrainTaskPerAccount ==
    /\ []C30_OneDrainTask
    /\ [][/\ \A d \in DrainerIds : C30_Created(d)
          /\ \A a \in Accounts : C30_Removed(a) /\ C30_Executed(a)]_vars
    /\ \A a \in Accounts, e \in 1..MaxEvents : C30_Runs(a, e)

\* The drain task of an account awaits the first event of the queue while a
\* second event, appended after the task was created, waits on the queue.
C30_Witness ==
    \E a \in Accounts, d \in DrainerIds :
        /\ drainers[d] = [pc |-> "awaiting", acc |-> a]
        /\ a \in DOMAIN eventQueues
        /\ Len(eventQueues[a]) = 2
        /\ events[a][eventQueues[a][1]].state = "running"
        /\ events[a][eventQueues[a][2]].state = "new"

\* ---------------------------------------------------------------- C25
\* The step in which close() returns.
C25_CloseCompletes == (CloseCall \/ CloseResume) /\ closer'.pc = "idle"

\* No request is left pending and no socket keeps a pending-request entry.
C25_NothingPending ==
    /\ \A s \in 1..Len(socketInstances) : socketInstances[s].requestResolves = <<>>
    /\ \A f \in FutureIds : futures[f].state # "pending"

\* The assignment map and the list of socket instances are empty.
C25_Emptied ==
    /\ socketInstancesByAccounts = <<>>
    /\ SocketList = <<>>

\* A socket that close() has dropped from the list is not connected.
C25_ClosedStayClosed ==
    \A s \in 1..closedInstances :
        /\ ~socketInstances[s].connected
        /\ ~socketInstances[s].socketConnected

\* When close() returns the pool is emptied, and the sockets it has dropped
\* are never connected again.
C25_ClosedForGood ==
    /\ []C25_ClosedStayClosed
    /\ [][C25_CloseCompletes => C25_Emptied']_vars

\* C25: after close() completes, every request that was pending on any
\* socket has been completed with an error and no pending-request entry
\* remains, the account-to-socket assignment map and the socket list are
\* empty, and no closed socket is reconnected afterwards.
C25_CloseFailsPending ==
    /\ C25_ClosedForGood
    /\ [][C25_CloseCompletes => C25_NothingPending']_vars

\* ---------------------------------------------------------------- C22
\* The instance of the packet an event processes, and the other entries of
\* _connectedHosts of the same accountId:instanceNumber.
C22_Instance(e) == <<"a", ":", "0", ":">> \o <<packets[<<"a">>][e].host>>
C22_Replicas(e) ==
    {key \in connectedHosts : SubSeq(key, 1, 3) = <<"a", ":", "0">>} \ {C22_Instance(e)}

\* The callback the tasks of the event are for, one task per registered
\* listener.
C22_Tells(created, name) ==
    /\ Len(created) = 2
    /\ \A i \in 1..2 : created[i] = [listener |-> i, name |-> name, state |-> "created"]

\* A disconnected packet begins to be processed.
C22_DisconnectedStarts(e) ==
    /\ e <= Len(packets[<<"a">>])
    /\ packets[<<"a">>][e].type = "disconnected"
    /\ ProcessStart(<<"a">>, e)

\* What the first stretch of the processing does, by the state of
\* _connectedHosts it finds.
C22_Start(e) ==
    C22_DisconnectedStarts(e) =>
        IF C22_Instance(e) \notin connectedHosts
        THEN /\ packets'[<<"a">>][e].calls = <<>>
             /\ packets'[<<"a">>][e].pc = "done"
             /\ supervisor' = supervisor
             /\ tasks' = tasks
             /\ connectedHosts' = connectedHosts
        ELSE IF C22_Replicas(e) = {}
        THEN /\ supervisor' =
                   Append(supervisor, <<"on_disconnected", <<"a">>, packets[<<"a">>][e].host>>)
             /\ \E t \in TaskIds :
                   /\ tasks[t].kind = "free"
                   /\ tasks'[t].kind = "on_disconnected"
                   /\ tasks'[t].acc = <<"a">>
             /\ C22_Tells(packets'[<<"a">>][e].calls, "on_disconnected")
        ELSE /\ supervisor' = supervisor
             /\ tasks' = tasks
             /\ C22_Tells(packets'[<<"a">>][e].calls, "on_stream_closed")

\* The processing of a disconnected packet ends when every listener has been
\* called, and it leaves the instance out of _connectedHosts.
C22_End(e) ==
    /\ e <= Len(packets[<<"a">>])
    /\ packets[<<"a">>][e].type = "disconnected"
    /\ packets[<<"a">>][e].pc # "done"
    /\ packets'[<<"a">>][e].pc = "done"
    => /\ C22_Instance(e) \notin connectedHosts'
       /\ \A i \in 1..Len(packets[<<"a">>][e].calls) :
              packets[<<"a">>][e].calls[i].state \in {"returned", "raised"}

\* The supervisor is told of a disconnect only by the first stretch of a
\* disconnected packet.
C22_SupervisorTold ==
    /\ Len(supervisor') > Len(supervisor)
    /\ supervisor'[Len(supervisor')][1] = "on_disconnected"
    => \E e \in 1..MaxRouteEvents : C22_DisconnectedStarts(e)

\* C22: when a disconnected event is processed for an instance present in
\* ConnectedHosts: if it is the only ConnectedHosts entry of its
\* accountId:instanceNumber, the supervisor's on_disconnected is invoked and
\* the listeners receive on_disconnected; otherwise the listeners receive
\* on_stream_closed and the supervisor is not invoked; in both cases the
\* instance is then absent from ConnectedHosts.  A disconnected event for an
\* instance not in ConnectedHosts notifies no listener and does not invoke
\* the supervisor.
C22_DisconnectedEvent ==
    [][/\ \A e \in 1..MaxRouteEvents : C22_Start(e) /\ C22_End(e)
       /\ C22_SupervisorTold]_vars

\* The supervisor has been told of the disconnect of one host of the account,
\* and the disconnected packet of another host, processed while a replica is
\* connected, has told the first listener on_stream_closed.
C22_Witness ==
    \E e \in 1..MaxRouteEvents :
        /\ e <= Len(packets[<<"a">>])
        /\ packets[<<"a">>][e].type = "disconnected"
        /\ packets[<<"a">>][e].pc = "gathering"
        /\ packets[<<"a">>][e].calls[1].name = "on_stream_closed"
        /\ packets[<<"a">>][e].calls[1].state = "returned"
        /\ C22_Replicas(e) # {}

\* ---------------------------------------------------------------- C24
\* A listener of the event raised while it was told of the event.
C24_Raised(e) ==
    /\ e <= Len(packets[<<"a">>])
    /\ \E i \in 1..Len(packets[<<"a">>][e].calls) :
          packets[<<"a">>][e].calls[i].state = "raised"

\* An event that tells the listeners ends only when each of the two
\* registered listeners has been called, and it ends as any other event.
C24_EveryListenerTold(e) ==
    /\ e <= Len(packets[<<"a">>])
    /\ packets[<<"a">>][e].pc = "gathering"
    /\ packets'[<<"a">>][e].pc = "done"
    => /\ Len(packets[<<"a">>][e].calls) = 2
       /\ \A i \in 1..2 : /\ packets[<<"a">>][e].calls[i].listener = i
                          /\ packets[<<"a">>][e].calls[i].state \in {"returned", "raised"}
       /\ events'[<<"a">>][e].state = "done"

\* What a listener raises changes nothing but the state of its own task.
C24_RaiseIsLocal(e) ==
    ~C24_Raised(e) /\ C24_Raised(e)' =>
        /\ \E i \in 1..2 :
              packets' = [packets EXCEPT ![<<"a">>][e].calls[i].state = "raised"]
        /\ UNCHANGED <<events, eventQueues, drainers, started, raised, connectedHosts,
                       statusTimers, supervisor, tasks, subscriptions>>

\* No task of the queue has ended with an error.
C24_NoneEscaped ==
    /\ raised = ""
    /\ \A d \in DrainerIds : drainers[d].pc # "crashed"

\* An event waits on the queue of the account behind an event of which a
\* listener raised.
C24_QueuedBehind(e1, e2) ==
    /\ C24_Raised(e1)
    /\ e2 <= Len(events[<<"a">>])
    /\ events[<<"a">>][e2].state = "new"
    /\ <<"a">> \in DOMAIN eventQueues
    /\ \E i, j \in 1..Len(eventQueues[<<"a">>]) :
          i < j /\ eventQueues[<<"a">>][i] = e1 /\ eventQueues[<<"a">>][j] = e2

\* The event has been processed to its end.
C24_Processed(e) ==
    /\ e <= Len(events[<<"a">>])
    /\ events[<<"a">>][e].state = "done"
    /\ packets[<<"a">>][e].pc = "done"

\* C24: if one synchronization listener raises while being notified of an
\* event, every other listener registered for that account is still notified
\* of the same event, the error does not escape event processing, and the
\* events queued after it for that account are still processed.
C24_ListenerErrorContained ==
    /\ []C24_NoneEscaped
    /\ [][\A e \in 1..3 : C24_EveryListenerTold(e) /\ C24_RaiseIsLocal(e)]_vars
    /\ \A e1 \in 1..2 : \A e2 \in 2..3 :
          C24_QueuedBehind(e1, e2) ~> C24_Processed(e2)

\* The first listener raised when it was told of the second event of the
\* account, the second listener has been told of it all the same, and a third
\* event waits on the queue behind it.
C24_Witness ==
    /\ Len(packets[<<"a">>]) = 3
    /\ packets[<<"a">>][2].pc = "gathering"
    /\ packets[<<"a">>][2].calls[1].state = "raised"
    /\ packets[<<"a">>][2].calls[2].state = "returned"
    /\ C24_QueuedBehind(2, 3)

\* ---------------------------------------------------------------- C21
\* The instance of a host of the account, and whether it is the only entry
\* of _connectedHosts of its accountId:instanceNumber.
C21_Instance(host) == <<"a", ":", "0", ":", host>>
C21_OnlyActive(host) ==
    {key \in connectedHosts : SubSeq(key, 1, 3) = <<"a", ":", "0">>} = {C21_Instance(host)}

\* The sleep of the watchdog of the instance ends in this step.
C21_Fires(host) ==
    /\ C21_Instance(host) \in DOMAIN statusTimers
    /\ statusTimers[C21_Instance(host)].task = "pending"
    /\ statusTimers'[C21_Instance(host)].task = "fired"

\* The watchdog that fires calls on_timeout of the supervisor when the
\* instance is the only active one, and in any case puts an on_disconnected
\* of its own at the end of the queue of the account.
C21_FireStep(host) ==
    C21_Fires(host) =>
        /\ IF C21_OnlyActive(host)
           THEN supervisor' = Append(supervisor, <<"on_timeout", <<"a">>, host>>)
           ELSE supervisor' = supervisor /\ tasks' = tasks
        /\ packets'[<<"a">>] = Append(packets[<<"a">>],
               [type |-> "timeout", host |-> host, session |-> "none",
                pc |-> "created", calls |-> <<>>, awaits |-> 0])
        /\ events'[<<"a">>] = Append(events[<<"a">>], [state |-> "new", queued |-> TRUE])
        /\ <<"a">> \in DOMAIN eventQueues'
        /\ eventQueues'[<<"a">>][Len(eventQueues'[<<"a">>])] = Len(events'[<<"a">>])
        /\ connectedHosts' = connectedHosts

\* Nothing but a watchdog that fires calls on_timeout.
C21_OnTimeoutByWatchdog ==
    /\ Len(supervisor') > Len(supervisor)
    /\ supervisor'[Len(supervisor')][1] = "on_timeout"
    => \E host \in {"h", "g"} : C21_Fires(host) /\ C21_OnlyActive(host)

\* The event of the watchdog begins to be processed.
C21_Starts(e) ==
    /\ e <= Len(packets[<<"a">>])
    /\ packets[<<"a">>][e].type = "timeout"
    /\ packets[<<"a">>][e].pc = "created"
    /\ packets'[<<"a">>][e].pc # "created"

\* The tasks of an event call one callback of each of the two listeners.
C21_Tells(e, name) ==
    /\ Len(packets'[<<"a">>][e].calls) = 2
    /\ \A i \in 1..2 : packets'[<<"a">>][e].calls[i] =
                          [listener |-> i, name |-> name, state |-> "created"]

\* The event of the watchdog tells the listeners on_disconnected whenever its
\* instance is in _connectedHosts.
C21_StartAlways(e) ==
    C21_Starts(e) /\ C21_Instance(packets[<<"a">>][e].host) \in connectedHosts =>
        /\ C21_Tells(e, "on_disconnected")
        /\ supervisor' = supervisor

\* The event of the watchdog tells the listeners on_disconnected when its
\* instance is the only active one and on_stream_closed when another host of
\* the account is connected.
C21_StartByReplicas(e) ==
    C21_Starts(e) /\ C21_Instance(packets[<<"a">>][e].host) \in connectedHosts =>
        /\ IF C21_OnlyActive(packets[<<"a">>][e].host)
           THEN C21_Tells(e, "on_disconnected")
           ELSE C21_Tells(e, "on_stream_closed")
        /\ supervisor' = supervisor

\* The event of the watchdog ends when every listener has been called, and
\* it leaves the instance out of _connectedHosts.
C21_End(e) ==
    /\ e <= Len(packets[<<"a">>])
    /\ packets[<<"a">>][e].type = "timeout"
    /\ packets[<<"a">>][e].pc # "done"
    /\ packets'[<<"a">>][e].pc = "done"
    => /\ C21_Instance(packets[<<"a">>][e].host) \notin connectedHosts'
       /\ \A i \in 1..Len(packets[<<"a">>][e].calls) :
              packets[<<"a">>][e].calls[i].state \in {"returned", "raised"}

\* An authenticated packet, and a status packet of an instance in
\* _connectedHosts, leave one sleeping watchdog for the instance; a
\* disconnected packet leaves none.
C21_Replaces(e) ==
    LET packet == packets[<<"a">>][e]
        timer == statusTimers'[C21_Instance(packet.host)]
    IN  e <= Len(packets[<<"a">>]) /\ packet.pc = "created"
        /\ packets'[<<"a">>][e].pc # "created" =>
           /\ packet.type = "authenticated"
              \/ (packet.type = "status" /\ C21_Instance(packet.host) \in connectedHosts)
              => timer = [task |-> "pending", stale |-> 0]
           /\ packet.type = "disconnected"
              /\ C21_Instance(packet.host) \in DOMAIN statusTimers'
              => timer.task # "pending" /\ timer.stale = 0

\* No watchdog sleeps that _status_timers does not hold.
C21_OnePending ==
    \A key \in DOMAIN statusTimers : statusTimers[key].stale = 0

\* The event of the watchdog is on the queue of the account, and it has been
\* processed to its end.
C21_Queued(e) ==
    e <= Len(packets[<<"a">>]) /\ packets[<<"a">>][e].type = "timeout"
C21_Processed(e) ==
    e <= Len(packets[<<"a">>]) /\ packets[<<"a">>][e].pc = "done"

\* What holds of the watchdog whatever the event of the watchdog tells the
\* listeners.
C21_Watchdog ==
    /\ []C21_OnePending
    /\ [][/\ \A host \in {"h", "g"} : C21_FireStep(host)
          /\ C21_OnTimeoutByWatchdog
          /\ \A e \in 1..3 : C21_End(e) /\ C21_Replaces(e)]_vars
    /\ \A e \in 1..3 : C21_Queued(e) ~> C21_Processed(e)

\* C21: for an instance recorded in ConnectedHosts, if 60 seconds pass after
\* its last authenticated or status event without another one and without a
\* disconnected event, the watchdog fires: it calls the supervisor's
\* on_timeout when the instance is the only active one for its account and
\* instance number, and it queues a synthesized disconnected event whose
\* processing notifies the account's listeners with on_disconnected and
\* removes the instance from ConnectedHosts.  Each authenticated/status event
\* replaces the pending watchdog, so at most one watchdog is pending per
\* instance.
C21_WatchdogTellsDisconnected ==
    /\ C21_Watchdog
    /\ [][\A e \in 1..3 : C21_StartAlways(e)]_vars

\* C21 as the code has it: the processing of the synthesized event notifies
\* the listeners with on_disconnected when the instance is the only active
\* one of its account and instance number, and with on_stream_closed when
\* another host of them is connected; in both cases it removes the instance
\* from ConnectedHosts.
C21_WatchdogTellsByReplicas ==
    /\ C21_Watchdog
    /\ [][\A e \in 1..3 : C21_StartByReplicas(e)]_vars

\* The watchdog of the only connected host has fired and called on_timeout,
\* and the event it queued has told the first listener on_disconnected.
C21_Witness ==
    /\ supervisor # <<>>
    /\ supervisor[1] = <<"on_timeout", <<"a">>, "h">>
    /\ \E e \in 1..3 :
          /\ C21_Queued(e)
          /\ packets[<<"a">>][e].pc = "gathering"
          /\ packets[<<"a">>][e].calls[1].name = "on_disconnected"
          /\ packets[<<"a">>][e].calls[1].state = "returned"
          /\ statusTimers[C21_Instance("h")] = [task |-> "fired", stale |-> 0]

\* ---------------------------------------------------------------- C23
\* An authenticated packet begins to be processed.
C23_Starts(e) ==
    /\ e <= Len(packets[<<"a">>])
    /\ packets[<<"a">>][e].type = "authenticated"
    /\ packets[<<"a">>][e].pc = "created"
    /\ packets'[<<"a">>][e].pc # "created"

\* The instance the packet is of: its host is "0" when it names none.
C23_Instance(e) ==
    <<"a", ":", "0", ":">> \o
        <<IF packets[<<"a">>][e].host = "" THEN "0" ELSE packets[<<"a">>][e].host>>

\* on_connected is called of each of the two listeners of the account.
C23_TellsConnected(e) ==
    /\ Len(packets'[<<"a">>][e].calls) = 2
    /\ \A i \in 1..2 : packets'[<<"a">>][e].calls[i] =
                          [listener |-> i, name |-> "on_connected", state |-> "created"]

\* A packet that carries another sessionId than the socket of the account
\* has adds nothing to _connectedHosts and calls no listener.
C23_Rejected(e) ==
    C23_Starts(e) /\ packets[<<"a">>][e].session = "other" =>
        /\ connectedHosts' = connectedHosts
        /\ packets'[<<"a">>][e].calls = <<>>
        /\ packets'[<<"a">>][e].pc = "done"

\* A packet that carries no sessionId, or the one of the socket, puts its
\* instance in _connectedHosts and calls on_connected.
C23_AcceptedAlways(e) ==
    C23_Starts(e) /\ packets[<<"a">>][e].session \in {"none", "current"} =>
        /\ connectedHosts' = connectedHosts \cup {C23_Instance(e)}
        /\ C23_TellsConnected(e)

\* A packet that carries no sessionId, or the one of the socket, calls
\* on_connected, and it puts its instance in _connectedHosts when it names
\* its host.
C23_AcceptedByHost(e) ==
    C23_Starts(e) /\ packets[<<"a">>][e].session \in {"none", "current"} =>
        /\ connectedHosts' = IF packets[<<"a">>][e].host = "" THEN connectedHosts
                             ELSE connectedHosts \cup {C23_Instance(e)}
        /\ C23_TellsConnected(e)

\* A packet that carried the sessionId of the socket when it arrived carries
\* another one once the socket has begun to reconnect.
C23_Reconnects(e) ==
    /\ e <= Len(packets[<<"a">>])
    /\ packets[<<"a">>][e].pc = "created"
    /\ packets[<<"a">>][e].session = "current"
    /\ socketInstances[1].reconnect = "disconnecting"
    /\ socketInstances'[1].reconnect = "connecting"
    => packets'[<<"a">>][e].session = "other"

\* C23: an authenticated event carrying a sessionId different from the
\* current sessionId of the account's socket (for example one answering a
\* subscribe sent before the socket reconnected) does not add the instance to
\* ConnectedHosts and does not invoke any listener's on_connected; an
\* authenticated event with no sessionId or with the socket's current
\* sessionId does both.
C23_SessionDecides ==
    [][\A e \in 1..3 : C23_Rejected(e) /\ C23_Reconnects(e) /\ C23_AcceptedAlways(e)]_vars

\* C23 as the code has it: an authenticated event with no sessionId or with
\* the socket's current sessionId invokes on_connected of the listeners, and
\* adds the instance to ConnectedHosts when the packet names a host.
C23_SessionDecidesHostRecorded ==
    [][\A e \in 1..3 : C23_Rejected(e) /\ C23_Reconnects(e) /\ C23_AcceptedByHost(e)]_vars

\* A packet with another sessionId than the socket of the account had when
\* it was processed has left _connectedHosts empty and called no listener,
\* and a packet with the sessionId the socket has now has recorded the host
\* and calls the listeners.
C23_Witness ==
    /\ Len(packets[<<"a">>]) >= 2
    /\ packets[<<"a">>][1] = [type |-> "authenticated", host |-> "h", session |-> "other",
                              pc |-> "done", calls |-> <<>>, awaits |-> 0]
    /\ socketInstances[1].reconnect = "none"
    /\ socketInstances[1].socketConnected
    /\ packets[<<"a">>][2].type = "authenticated"
    /\ packets[<<"a">>][2].session = "current"
    /\ packets[<<"a">>][2].pc = "gathering"
    /\ packets[<<"a">>][2].calls[1].name = "on_connected"
    /\ connectedHosts = {<<"a", ":", "0", ":", "h">>}

\* ---------------------------------------------------------------- C28
\* remove_all_listeners leaves no synchronization listener and no reconnect
\* listener.
C28_TwoEmptied ==
    [][RemoveAllListeners =>
          synchronizationListeners' = <<>> /\ reconnectListeners' = <<>>]_vars

\* C28: after remove_all_listeners(), whatever sequence of add/remove
\* operations preceded it, all three listener registries are empty:
\* synchronization listeners, latency listeners and reconnect listeners.
C28_AllEmptied ==
    [][RemoveAllListeners =>
          /\ synchronizationListeners' = <<>>
          /\ latencyListeners' = <<>>
          /\ reconnectListeners' = <<>>]_vars

\* ---------------------------------------------------------------- C29
\* The listener is in the list of the account.
C29_Registered(account_id, l) ==
    /\ account_id \in DOMAIN synchronizationListeners
    /\ \E i \in 1..Len(synchronizationListeners[account_id]) :
          synchronizationListeners[account_id][i] = l

\* Adding a listener the account has leaves the list as it was.
C29_AddTwice ==
    \A l \in {1, 2} :
        AddSynchronizationListener(<<"a">>, l) /\ C29_Registered(<<"a">>, l)
        => synchronizationListeners' = synchronizationListeners

\* An event calls no listener twice.
C29_ToldOnce ==
    \A e \in 1..Len(packets[<<"a">>]) :
        \A i, j \in 1..Len(packets[<<"a">>][e].calls) :
            i # j => packets[<<"a">>][e].calls[i].listener # packets[<<"a">>][e].calls[j].listener

\* Removing a listener the account has not, or has no longer, leaves the
\* registry as it was and raises nothing.
C29_RemoveTwice ==
    \A l \in {1, 2} :
        /\ RemoveSynchronizationListener(<<"a">>, l)
        /\ <<"a">> \in DOMAIN synchronizationListeners
        /\ ~C29_Registered(<<"a">>, l)
        => synchronizationListeners' = synchronizationListeners /\ raised' = ""

\* Removing a listener of an account that has no listeners leaves the
\* registry as it was and raises nothing.
C29_RemoveOfNone ==
    \A a \in {<<"a">>, <<"a", "b">>}, l \in {1, 2} :
        /\ RemoveSynchronizationListener(a, l)
        /\ a \notin DOMAIN synchronizationListeners
           \/ synchronizationListeners[a] = <<>>
        => synchronizationListeners' = synchronizationListeners /\ raised' = ""

\* Of the removals, what holds: a listener that is not in the list of an
\* account that has a list is removed without any change.
C29_RemovalIdempotent == [][C29_RemoveTwice]_vars

\* C29: listener registration and removal are idempotent: adding the same
\* synchronization listener twice for an account leaves it registered once,
\* so it is notified once per event; removing a listener twice equals
\* removing it once; and removing a listener for an account that has no
\* registered listeners changes nothing and does not fail.
C29_RegistryIdempotent ==
    /\ []C29_ToldOnce
    /\ [][C29_AddTwice /\ C29_RemoveTwice /\ C29_RemoveOfNone]_vars

\* ---------------------------------------------------------------- C32
\* An authenticated packet without sessionId, or with the one of the socket,
\* begins to be processed.
C32_AcceptedStarts(e) ==
    /\ e <= Len(packets[<<"a">>])
    /\ packets[<<"a">>][e].type = "authenticated"
    /\ packets[<<"a">>][e].session \in {"none", "current"}
    /\ packets[<<"a">>][e].pc = "created"
    /\ packets'[<<"a">>][e].pc # "created"

\* The supervisor loop of the instance, if there is one, is cancelled: its
\* entry has shouldRetry False and its attempt is not in flight.
C32_LoopCancelled ==
    <<"a", ":", "0">> \in DOMAIN subscriptions =>
        /\ ~subscriptions[<<"a", ":", "0">>].shouldRetry
        /\ \A t \in TaskIds :
              tasks[t].kind = "subscribe" /\ tasks[t].acc = <<"a">>
              /\ tasks[t].pc \in {"waitTask", "waitFuture"}
              => /\ tasks[t].task \notin {"created", "running", "sleeping"}
                 /\ tasks[t].future # "pending"

\* With a listener registered for the account the packet cancels the loop.
C32_CancelledWithListeners ==
    [][\A e \in 1..3 :
          C32_AcceptedStarts(e) /\ <<"a">> \in DOMAIN synchronizationListeners
          => C32_LoopCancelled']_vars

\* C32: whenever an authenticated event with a matching or absent sessionId
\* is processed for (accountId, instanceNumber), the supervisor loop of
\* accountId:instanceNumber is cancelled, so that loop sends no further
\* subscribe request; this holds whether or not synchronization listeners are
\* registered for the account.
C32_AuthenticatedCancelsLoop ==
    [][\A e \in 1..3 : C32_AcceptedStarts(e) => C32_LoopCancelled']_vars

\* ---------------------------------------------------------------- C33
\* A _reconnect of the socket is between its first line and the end of its
\* connect.
C33_Busy == socketInstances[1].isReconnecting

\* The flag is set for as long as a _reconnect disconnects or connects the
\* socket.
C33_PhaseHoldsFlag ==
    socketInstances[1].reconnect \in {"disconnecting", "connecting"} => C33_Busy

\* _reconnect is called for the socket: by on_error, by on_disconnect, or by
\* a lock task of the socket, which calls it when it finds no subscribed
\* account on the socket.
C33_CalledByLock == \E l \in lockTasks : l.index = 0 /\ LockSocketInstance(l)
C33_Called == SocketError(1) \/ SocketDisconnected(1) \/ C33_CalledByLock

\* A call made while the flag is set leaves the phase of the running
\* _reconnect, the resolved flag, the sessionId the packets are compared
\* with and the socket as they are; only the drop of the connection that
\* on_disconnect reports is seen.
C33_CallReturns ==
    C33_Busy /\ C33_Called =>
        /\ socketInstances'[1].reconnect = socketInstances[1].reconnect
        /\ socketInstances'[1].isReconnecting
        /\ socketInstances'[1].resolved = socketInstances[1].resolved
        /\ socketInstances'[1].connected = socketInstances[1].connected
        /\ socketInstances'[1].requestResolves = socketInstances[1].requestResolves
        /\ socketInstances'[1].socketConnected =
              (socketInstances[1].socketConnected /\ ~SocketDisconnected(1))
        /\ packets' = packets

\* The disconnect/connect phase begins only with the flag not set.
C33_PhaseBegins ==
    /\ socketInstances[1].reconnect # "disconnecting"
    /\ socketInstances'[1].reconnect = "disconnecting"
    => \/ ~C33_Busy /\ C33_Called
       \/ socketInstances[1].reconnect = "connecting" /\ ReconnectFailed(1)

\* C33: for each socket at most one reconnect procedure is in its
\* disconnect/connect phase at a time: a _reconnect call made for a socket
\* while its isReconnecting flag is set returns without touching that
\* socket's transport, sessionId, resolved flag or connectResult, whatever the
\* interleaving of disconnect, error and lock-triggered reconnect requests.
C33_OneReconnectPerSocket ==
    /\ []C33_PhaseHoldsFlag
    /\ [][C33_CallReturns /\ C33_PhaseBegins]_vars

\* Both accounts of the socket were dropped and both lock tasks have run, no
\* lock is set, and the socket, still connected, is being disconnected by the
\* _reconnect the first of them started; a packet with the sessionId of the
\* socket waits.
C33_Witness ==
    /\ C33_Busy
    /\ socketInstances[1].reconnect = "disconnecting"
    /\ socketInstances[1].socketConnected
    /\ ~socketInstances[1].subscribeLock.set
    /\ lockTasks = {}
    /\ DOMAIN socketInstancesByAccounts = {}
    /\ Len(packets[<<"a">>]) = 1
    /\ packets[<<"a">>][1].session = "current"


\* ---------------------------------------------------------------------------
\* C34: a lock of the client or of a socket does not touch the requests of
\* accounts that have a socket.  The step in which rpc_request is called for
\* such an account never leaves the call polling the lock of the client and
\* never leaves it in connect(): the call is bound to the socket the account
\* is assigned to, locked or not, with its request written when that socket
\* is resolved; the step changes neither the assignment map nor the list of
\* sockets.  A call polls the lock only if its account had no socket when it
\* was made.
C34_CalledForAssigned(c) ==
    /\ calls[c].pc = "idle"
    /\ calls'[c].pc # "idle"
    /\ calls'[c].acc \in DOMAIN socketInstancesByAccounts

C34_BoundToItsSocket(c) ==
    LET s == closedInstances + socketInstancesByAccounts[calls'[c].acc] + 1
    IN  /\ calls'[c].pc \in {"emitting", "waitConnect"}
        /\ calls'[c].instance = s
        /\ calls'[c].pc = "emitting" <=> socketInstances[s].resolved
        /\ calls'[c].pc = "emitting" =>
              \E f \in FutureIds : /\ f[1] = c
                                   /\ futures'[f].state = "pending"
                                   /\ futures'[f].instance = s

C34_PollsOnlyUnassigned(c) ==
    calls'[c].pc = "lockPoll" =>
        \/ calls[c].pc = "lockPoll"
        \/ /\ calls[c].pc = "idle"
           /\ calls'[c].acc \notin DOMAIN socketInstancesByAccounts

C34_AssignedIgnoreLocks ==
    [][\A c \in CallIds :
          /\ C34_PollsOnlyUnassigned(c)
          /\ C34_CalledForAssigned(c) =>
                /\ C34_BoundToItsSocket(c)
                /\ socketInstancesByAccounts' = socketInstancesByAccounts
                /\ Len(socketInstances') = Len(socketInstances)
                /\ \A s \in 1..Len(socketInstances) :
                      socketInstances'[s].subscribeLock = socketInstances[s].subscribeLock]_vars

\* The lock of the client blocks (a call for an account without a socket
\* polls it), the socket of the first account carries a lock of its own, and
\* the request of the first account is written on that socket.
C34_Witness ==
    /\ LockBlocks(socketInstancesByAccounts)
    /\ socketInstances[1].subscribeLock.set
    /\ \E c \in CallIds : calls[c].pc = "lockPoll"
    /\ AccountList[1] \in DOMAIN socketInstancesByAccounts
    /\ \E c \in CallIds : /\ calls[c].acc = AccountList[1]
                          /\ calls[c].pc = "emitting"
                          /\ calls[c].instance = 1


\* ---------------------------------------------------------------------------
\* C35: the life of a pending-request entry.  The entry of a requestId is in
\* the map of the socket from the step that writes the request; it leaves the
\* map only in the step of a response with that requestId, of a
\* processingError with that requestId, or of the timeout of an attempt made
\* with that requestId on that socket; after each of these steps the map has
\* no entry for the requestId, and the timeout leaves the caller with
\* TimeoutException.
C35_Entries(s) == DOMAIN socketInstances[s].requestResolves

C35_Written(c) ==
    /\ calls[c].pc # "emitting"
    /\ calls'[c].pc = "emitting"

C35_TimesOut(c) ==
    /\ calls[c].pc = "waiting"
    /\ futures[calls[c].awaits].state = "pending"
    /\ calls'[c].pc # "waiting"

C35_Frame(s, request_id) ==
    \/ OnResponse(s, request_id)
    \/ \E error \in ErrorFrames : OnProcessingError(s, request_id, error, 0)

C35_TimeoutOf(s, request_id) ==
    \E c \in CallIds : /\ C35_TimesOut(c)
                       /\ calls[c].instance = s
                       /\ calls[c].requestId = request_id

C35_Leaves(s, request_id) ==
    /\ request_id \in C35_Entries(s)
    /\ request_id \notin DOMAIN socketInstances'[s].requestResolves

C35_Steps(byClose) ==
    /\ \A c \in CallIds :
          /\ C35_Written(c) =>
                calls'[c].requestId \in
                    DOMAIN socketInstances'[calls'[c].instance].requestResolves
          /\ C35_TimesOut(c) =>
                /\ calls[c].requestId \notin
                      DOMAIN socketInstances'[calls[c].instance].requestResolves
                /\ calls'[c].pc = "raised"
                /\ calls'[c].err.class = "TimeoutException"
    /\ \A s \in 1..Len(socketInstances), request_id \in AllRequestIds :
          /\ C35_Frame(s, request_id) =>
                request_id \notin DOMAIN socketInstances'[s].requestResolves
          /\ C35_Leaves(s, request_id) =>
                \/ C35_Frame(s, request_id)
                \/ C35_TimeoutOf(s, request_id)
                \/ byClose /\ closer' # closer

C35_RemovedByResponseErrorOrTimeout == [][C35_Steps(FALSE)]_vars

\* The same with close(): the entry also leaves the map when close() has
\* disconnected the socket and fails its pending requests (lines 353-357).
C35_RemovedByResponseErrorTimeoutOrClose == [][C35_Steps(TRUE)]_vars

\* A request has timed out: its caller holds TimeoutException, its entry is
\* gone, and the entry of another request is still in the map of the socket.
C35_Witness ==
    \E c \in CallIds :
        /\ calls[c].pc = "raised"
        /\ calls[c].err.class = "TimeoutException"
        /\ calls[c].line = 1079
        /\ \E d \in CallIds \ {c} :
              /\ calls[d].pc = "waiting"
              /\ futures[calls[d].awaits].state = "pending"
              /\ calls[d].requestId \in C35_Entries(calls[d].instance)


\* ---------------------------------------------------------------------------
\* C36: rpc_request never waits for the connect of a socket without end.  A
\* call that waits for its socket, be it the socket its account was assigned
\* to before the call, a socket the call has placed the account on, or a
\* socket the call has opened, comes out of the wait.
C36_WaitsForSocket(c) == calls[c].pc \in {"connecting", "waitConnect"}

C36_NeverWaitsIndefinitely ==
    \A c \in CallIds : C36_WaitsForSocket(c) ~> ~C36_WaitsForSocket(c)

\* The part that holds: a call that waits for the resolved flag of a socket
\* of the list (lines 1071-1072) comes out of that wait, and when it comes
\* out with the flag still clear it has raised TimeoutException at line 1074
\* without having written a request.
C36_FlagWaitEnds ==
    \A c \in CallIds : (calls[c].pc = "waitConnect") ~> (calls[c].pc # "waitConnect")

C36_FlagWaitTimesOut ==
    [][\A c \in CallIds :
          (/\ calls[c].pc = "waitConnect"
           /\ calls'[c].pc # "waitConnect"
           /\ ~socketInstances[calls[c].instance].resolved)
          => /\ calls'[c].pc = "raised"
             /\ calls'[c].err.class = "TimeoutException"
             /\ calls'[c].line = 1074
             /\ calls'[c].attempts = 0
             /\ \A s \in 1..Len(socketInstances) :
                   socketInstances'[s].requestResolves = socketInstances[s].requestResolves]_vars

C36_FlagWaitBounded == C36_FlagWaitEnds /\ C36_FlagWaitTimesOut


\* ---------------------------------------------------------------------------
\* C39: no pending-request entry outlives its caller.  Every entry of the
\* map of a socket belongs to a call in progress that has written a request
\* with that requestId on that socket; with no call in progress on a socket
\* its map is empty, also after the task of a call was cancelled while its
\* request was pending.
C39_InProgress(c, s) ==
    /\ calls[c].pc \in {"emitting", "waiting"}
    /\ calls[c].instance = s

C39_NoEntryOutlivesCaller ==
    \A s \in 1..Len(socketInstances) :
        /\ \A request_id \in DOMAIN socketInstances[s].requestResolves :
              \E c \in CallIds : C39_InProgress(c, s) /\ calls[c].requestId = request_id
        /\ (\A c \in CallIds : ~C39_InProgress(c, s))
              => socketInstances[s].requestResolves = <<>>

\* The part that holds: an entry without a call in progress is the entry of
\* a cancelled attempt, its future cancelled.
C39_OnlyCancelledOutlive ==
    \A s \in 1..Len(socketInstances) :
        \A request_id \in DOMAIN socketInstances[s].requestResolves :
            \/ \E c \in CallIds : C39_InProgress(c, s) /\ calls[c].requestId = request_id
            \/ futures[socketInstances[s].requestResolves[request_id]].state = "cancelled"


\* ---------------------------------------------------------------------------
\* C40: after unsubscribe(account) has returned without raising, that is
\* after the call of line 884 has returned or has raised NotFoundException or
\* TimeoutException, the account has no entry in the assignment map and is
\* not among the accounts assigned to any socket.
C40_ReturnsWithoutRaising(a) ==
    \E outcome \in {"returned", "NotFoundException", "TimeoutException"} :
        UnsubscribeResume(a, outcome)

C40_Released(a) ==
    /\ a \notin DOMAIN socketInstancesByAccounts'
    /\ \A index \in 0..MaxSockets :
          a \notin GetAssignedAccounts(socketInstancesByAccounts', index)

C40_UnsubscribeReleasesAccount ==
    [][\A a \in Accounts : C40_ReturnsWithoutRaising(a) => C40_Released(a)]_vars

\* The part that holds: when the call of line 884 returns, line 885 takes
\* the account out of the map and out of the count of its socket.
C40_ReleasedWhenRequestSucceeds ==
    [][\A a \in Accounts :
          (a \in DOMAIN socketInstancesByAccounts /\ UnsubscribeResume(a, "returned"))
          => /\ C40_Released(a)
             /\ Cardinality(GetAssignedAccounts(socketInstancesByAccounts',
                                                socketInstancesByAccounts[a]))
                = Cardinality(GetAssignedAccounts(socketInstancesByAccounts,
                                                  socketInstancesByAccounts[a])) - 1]_vars


\* ---------------------------------------------------------------------------
\* C38: no subscribe call is lost to a cancellation.  When a call of
\* subscribe(account_id, instance_number) has run to its first await or to
\* its end, a supervisor loop of the instance id that is not cancelled
\* exists, whatever cancel_subscribe has done before the call ran.
C38_SubscribeRuns(t) ==
    /\ tasks[t].kind = "subscribe"
    /\ tasks[t].pc = "scheduled"
    /\ tasks'[t].pc # "scheduled"

C38_LoopExists(instance_id) ==
    /\ instance_id \in DOMAIN subscriptions'
    /\ subscriptions'[instance_id].shouldRetry

C38_NoSubscribeLost ==
    [][\A t \in TaskIds : C38_SubscribeRuns(t) => C38_LoopExists(TaskKey(t))]_vars

\* The part that holds: a call that runs when the map has no entry of the
\* instance id, or an entry that is not cancelled, leaves a loop that is not
\* cancelled; a call is lost only when it finds the entry of a cancelled
\* loop that has not resumed yet.
C38_LostOnlyToCancelledEntry ==
    [][\A t \in TaskIds :
          (/\ C38_SubscribeRuns(t)
           /\ TaskKey(t) \in DOMAIN subscriptions => subscriptions[TaskKey(t)].shouldRetry)
          => C38_LoopExists(TaskKey(t))]_vars


\* ---------------------------------------------------------------------------
\* C37: for an account whose subscription is inactive every synchronization
\* event other than disconnected is dropped: no event is queued or created
\* for it and no packet is handed on; and the unsubscribe requests these
\* events trigger for one account are at least
\* unsubscribeThrottlingIntervalInSeconds, by default 10 seconds, apart.
C37_InactiveEvent ==
    \E a \in Accounts, type \in {"authenticated", "status"} :
        OnSynchronization(a, type, "h", "none", TRUE, TRUE, FALSE)

C37_Dropped == [][C37_InactiveEvent => UNCHANGED eqVars]_vars

C37_OncePerInterval ==
    \A x \in unsubscribeTasks, y \in unsubscribeTasks :
        (x[1] = y[1] /\ x[2] < y[2]) => y[2] - x[2] >= 10

C37_InactiveDroppedAndThrottled == C37_Dropped /\ []C37_OncePerInterval

\* The part that holds besides the drop: an unsubscribe task is created only
\* when the time recorded for the account is earlier than the second of the
\* event, and the second of the event is recorded.
C37_ThrottledWithinTheSecond ==
    [][\A a \in Accounts :
          (<<a, now>> \in unsubscribeTasks' \ unsubscribeTasks)
          => /\ a \in DOMAIN lastRequestsTime
             /\ lastRequestsTime[a] < now
             /\ lastRequestsTime'[a] = now]_vars


\* ---------------------------------------------------------------------------
\* C31: when the packets of a synchronization obey the flags its
\* synchronizationStarted recorded, each registered listener has received
\* on_positions_synchronized once and on_pending_orders_synchronized once,
\* the former before the latter, once the last packet was processed, and the
\* entry of the synchronization in _synchronizationFlags no longer exists.
C31_Done ==
    /\ syncSent.sent # <<>>
    /\ NextSyncPacket = ""
    /\ syncPacket.pc = "none"

C31_Registered ==
    IF SyncAccount \in DOMAIN synchronizationListeners
    THEN {synchronizationListeners[SyncAccount][i] :
             i \in 1..Len(synchronizationListeners[SyncAccount])}
    ELSE {}

C31_At(l, name) == {i \in 1..Len(syncCalls[l]) : syncCalls[l][i] = name}

C31_Received(l) ==
    /\ Cardinality(C31_At(l, "on_positions_synchronized")) = 1
    /\ Cardinality(C31_At(l, "on_pending_orders_synchronized")) = 1
    /\ \A i \in C31_At(l, "on_positions_synchronized"),
          j \in C31_At(l, "on_pending_orders_synchronized") : i < j

C31_Cleared == SyncId \notin DOMAIN synchronizationFlags

C31_SynchronizedOnceAndCleared ==
    C31_Done => /\ \A l \in C31_Registered : C31_Received(l)
                /\ C31_Cleared

\* The part that holds: a listener none of whose calls raised has received
\* both calls once and in this order, no listener receives either of them
\* twice, and the entry is deleted when the account has a listener.
C31_OnceWhenNothingRaises ==
    /\ \A l \in Listeners :
          /\ Cardinality(C31_At(l, "on_positions_synchronized")) <= 1
          /\ Cardinality(C31_At(l, "on_pending_orders_synchronized")) <= 1
    /\ C31_Done =>
          /\ \A l \in C31_Registered : C31_At(l, "raised") = {} => C31_Received(l)
          /\ C31_Registered # {} => C31_Cleared

\* A synchronization that announced no update of positions and orders has
\* ended for two listeners, both of which were told of both.
C31_Witness ==
    /\ C31_Done
    /\ ~syncSent.positionsUpdated /\ ~syncSent.ordersUpdated
    /\ Cardinality(C31_Registered) = 2
    /\ \A l \in C31_Registered : C31_Received(l)
    /\ C31_Cleared

====
